---------------------------- MODULE Spec2Model ----------------------------
(***************************************************************************)
(* A model of the XML first-cut editor: the frame-unit timeline            *)
(* reconstruction of src/xml_first_cut/timeline.py (command-line pipeline) *)
(* and of src/app/xml_processor.py (GUI pipeline), the interval merges,    *)
(* the RMS / hysteresis silence detector of                                *)
(* src/xml_first_cut/audio_analysis.py with the clamping and offset of     *)
(* detect_non_silent_sections, and a whole run of either pipeline from the *)
(* input file to the output file (src/xml_first_cut/cli.py,                *)
(* src/xml_first_cut/xml_parser.py, process_xml).                          *)
(*                                                                         *)
(* Frames are integers.  Seconds are counted in ticks of half a second, so *)
(* that every time the detector computes from the modelled sample rates    *)
(* and window lengths is an exact integer.                                 *)
(***************************************************************************)
EXTENDS Integers, Sequences, FiniteSets, TLC

VARIABLES
    \* ---- timeline reconstruction (timeline.py, xml_processor.py, cli.py)
    pc,               \* position of the run
    doc_video,        \* <track> children of sequence/media/video: each a sequence of <clipitem>
    doc_audio,        \* <track> children of sequence/media/audio
    video_tracks,     \* SequenceData.video_tracks: per track, TrackData.clipitems
    audio_tracks,     \* SequenceData.audio_tracks
    segments,         \* the preserved segments handed to the reconstruction
    mappings,         \* the list _segment_mappings returned
    total_duration,   \* value returned by rebuild_sequence_tracks
    seq_elem,         \* children of the <sequence> element: in, out, end, duration, timecode
    warnings,         \* number of warnings logged by the run
    exit_code,        \* return value of run_from_args (NoValue while running)
    written,          \* whether the output file has been written
    \* ---- calls of the list functions (_segment_mappings and the three merges)
    list_fn,          \* the function under call
    list_arg,         \* the list it is first given
    list_tol,         \* gap_tolerance, for _merge_intervals
    list_out,         \* the values returned so far, each call being given the last one
    \* ---- _detect_segments (audio_analysis.py)
    detect_pc,        \* position inside _detect_segments
    mono_audio,       \* the samples
    sample_rate,      \* samples per second
    settings,         \* SilenceDetectionSettings
    window_samples,
    audio_duration,   \* the local total_duration of _detect_segments, in ticks
    rms_values,       \* per window, the mean square as a fraction num/den
    index,            \* index of the next window of the state-machine loop
    current_start,
    last_loud_time,
    accumulated_silence,
    non_silent_segments,
    detected,         \* the list _detect_segments returns
    \* ---- a whole run, from the input file on (cli.py run_from_args, process_xml)
    pipeline,         \* "cli" or "gui"
    input,            \* what the input file holds: exists, has_sequence, has_rate
    media,            \* per clip item of the first audio track (by origin): its media file
    fps,              \* the frame rate the run works with
    clip_index,       \* number of clips of the first audio track the analysis has passed
    collected,        \* the segments appended so far by the analysis loop
    analysed,         \* origins of the clips whose audio was decoded and analysed
    failure,          \* how the run failed, "none" while it has not
    \* ---- detect_non_silent_sections (audio_analysis.py)
    sections_pc,      \* position inside detect_non_silent_sections
    media_opens,      \* whether AudioFileClip can open the file
    media_samples,    \* the audio of the file, from media time 0
    start_seconds,
    end_seconds,
    actual_start,
    actual_end,
    adjusted,         \* the list detect_non_silent_sections returns
    \* ---- the clip loop of process_xml with _load_audio_segment (xml_processor.py)
    clip_paths,       \* file_path of the clips of audio_clips, in loop order
    loop_index,       \* number of clips the loop has passed
    audio_cache,      \* the dict audio_cache: resolved path -> decoded audio
    from_file_calls,  \* per resolved path, the calls of AudioSegment.from_file so far
    insertions,       \* per resolved path, the assignments cache[resolved_path] = audio so far
    loaded            \* per clip passed, what _load_audio_segment returned

timelineVars == <<pc, doc_video, doc_audio, video_tracks, audio_tracks, segments,
                  mappings, total_duration, seq_elem, warnings, exit_code, written>>

listVars == <<list_fn, list_arg, list_tol, list_out>>

detectVars == <<detect_pc, mono_audio, sample_rate, settings, window_samples, audio_duration,
                rms_values, index, current_start, last_loud_time, accumulated_silence,
                non_silent_segments, detected>>

runVars == <<pipeline, input, media, fps, clip_index, collected, analysed, failure>>

sectionVars == <<sections_pc, media_opens, media_samples, start_seconds, end_seconds, actual_start,
                 actual_end, adjusted>>

cacheVars == <<clip_paths, loop_index, audio_cache, from_file_calls, insertions, loaded>>

vars == <<timelineVars, listVars, detectVars, runVars, sectionVars, cacheVars>>

-----------------------------------------------------------------------------
(* Bounds of the model *)

MaxFrame == 5
MaxSegs == 2
MaxClips == 2

\* Python's None, and the value of what is not computed yet
NoValue == 0 - 1

\* no run of the reconstruction
IdleTimeline ==
    /\ pc = "idle"
    /\ doc_video = <<>> /\ doc_audio = <<>>
    /\ video_tracks = <<>> /\ audio_tracks = <<>>
    /\ segments = <<>> /\ mappings = <<>>
    /\ total_duration = NoValue
    /\ seq_elem = NoValue
    /\ warnings = 0
    /\ exit_code = NoValue
    /\ written = FALSE

\* no call of a list function
IdleLists ==
    /\ list_fn = "idle"
    /\ list_arg = <<>>
    /\ list_tol = 0
    /\ list_out = <<>>

\* no call of _detect_segments
IdleDetect ==
    /\ detect_pc = "idle"
    /\ mono_audio = <<>>
    /\ sample_rate = NoValue
    /\ settings = NoValue
    /\ window_samples = NoValue
    /\ audio_duration = NoValue
    /\ rms_values = <<>>
    /\ index = NoValue
    /\ current_start = NoValue
    /\ last_loud_time = NoValue
    /\ accumulated_silence = 0
    /\ non_silent_segments = <<>>
    /\ detected = NoValue

\* no run from the input file on
IdleRun ==
    /\ pipeline = "none"
    /\ input = NoValue
    /\ media = <<>>
    /\ fps = NoValue
    /\ clip_index = 0
    /\ collected = <<>>
    /\ analysed = {}
    /\ failure = "none"

\* no call of detect_non_silent_sections
IdleSections ==
    /\ sections_pc = "idle"
    /\ media_opens = FALSE
    /\ media_samples = <<>>
    /\ start_seconds = 0
    /\ end_seconds = 0
    /\ actual_start = NoValue
    /\ actual_end = NoValue
    /\ adjusted = NoValue

\* no clip loop of process_xml
IdleCache ==
    /\ clip_paths = <<>>
    /\ loop_index = 0
    /\ audio_cache = <<>>
    /\ from_file_calls = <<>>
    /\ insertions = <<>>
    /\ loaded = <<>>

Max(a, b) == IF a >= b THEN a ELSE b
Min(a, b) == IF a <= b THEN a ELSE b

Range(s) == {s[i] : i \in 1..Len(s)}

RECURSIVE SeqsUpTo(_, _)
\* all sequences over S of length at most n
SeqsUpTo(S, n) ==
    IF n = 0 THEN {<<>>}
    ELSE LET shorter == SeqsUpTo(S, n - 1)
         IN shorter \cup {Append(q, x) : q \in {r \in shorter : Len(r) = n - 1}, x \in S}

SeqsOfLen(S, n) == {q \in SeqsUpTo(S, n) : Len(q) = n}

-----------------------------------------------------------------------------
(* list.sort(key=...): Python's sort is stable *)

RECURSIVE InsertByStart(_, _)
InsertByStart(sorted, x) ==
    IF sorted = <<>> THEN <<x>>
    ELSE LET last == sorted[Len(sorted)]
         IN IF last.start <= x.start
            THEN Append(sorted, x)
            ELSE Append(InsertByStart(SubSeq(sorted, 1, Len(sorted) - 1), x), last)

RECURSIVE SortByStartUpTo(_, _)
SortByStartUpTo(s, n) ==
    IF n = 0 THEN <<>> ELSE InsertByStart(SortByStartUpTo(s, n - 1), s[n])

SortByStart(s) == SortByStartUpTo(s, Len(s))

-----------------------------------------------------------------------------
(* timeline.py: segments and mappings *)

TimelineSegment(s, e) == [start |-> s, end |-> e]

Duration(segment) == segment.end - segment.start

RECURSIVE MergeSegmentsLoop(_, _, _)
MergeSegmentsLoop(sorted, k, merged) ==
    IF k > Len(sorted) THEN merged
    ELSE LET segment == sorted[k]
             last == merged[Len(merged)]
         IN IF segment.start <= last.end + 1
            THEN MergeSegmentsLoop(sorted, k + 1,
                     [merged EXCEPT ![Len(merged)].end = Max(last.end, segment.end)])
            ELSE MergeSegmentsLoop(sorted, k + 1,
                     Append(merged, TimelineSegment(segment.start, segment.end)))

RECURSIVE MergeAgainstPreviousLoop(_, _, _)
MergeAgainstPreviousLoop(sorted, k, merged) ==
    IF k > Len(sorted) THEN merged
    ELSE LET segment == sorted[k]
             last == merged[Len(merged)]
         IN IF segment.start <= sorted[k - 1].end + 1
            THEN MergeAgainstPreviousLoop(sorted, k + 1,
                     [merged EXCEPT ![Len(merged)].end = Max(last.end, segment.end)])
            ELSE MergeAgainstPreviousLoop(sorted, k + 1,
                     Append(merged, TimelineSegment(segment.start, segment.end)))

\* a merge that tests each segment against the segment before it in the sorted input
\* instead of against the tail of the merged list
MergeSegmentsAgainstPrevious(segs) ==
    IF segs = <<>> THEN <<>>
    ELSE LET sorted == SortByStart(segs)
         IN MergeAgainstPreviousLoop(sorted, 2, <<sorted[1]>>)

RECURSIVE MergeOverlappingOnlyLoop(_, _, _)
MergeOverlappingOnlyLoop(sorted, k, merged) ==
    IF k > Len(sorted) THEN merged
    ELSE LET segment == sorted[k]
             last == merged[Len(merged)]
         IN IF segment.start <= last.end
            THEN MergeOverlappingOnlyLoop(sorted, k + 1,
                     [merged EXCEPT ![Len(merged)].end = Max(last.end, segment.end)])
            ELSE MergeOverlappingOnlyLoop(sorted, k + 1,
                     Append(merged, TimelineSegment(segment.start, segment.end)))

\* a merge without the tolerance of one frame
MergeSegmentsOverlappingOnly(segs) ==
    IF segs = <<>> THEN <<>>
    ELSE LET sorted == SortByStart(segs)
         IN MergeOverlappingOnlyLoop(sorted, 2, <<sorted[1]>>)

_merge_segments(segs) ==
    IF segs = <<>> THEN <<>>
    ELSE LET sorted == SortByStart(segs)
         IN MergeSegmentsLoop(sorted, 2, <<sorted[1]>>)

SegmentMapping(ss, se, os, oe) ==
    [source_start |-> ss, source_end |-> se, output_start |-> os, output_end |-> oe]

RECURSIVE SegmentMappingsLoop(_, _, _, _)
SegmentMappingsLoop(segs, k, current_output, acc) ==
    IF k > Len(segs) THEN acc
    ELSE LET segment == segs[k]
         IN IF Duration(segment) <= 0
            THEN SegmentMappingsLoop(segs, k + 1, current_output, acc)
            ELSE SegmentMappingsLoop(segs, k + 1, current_output + Duration(segment),
                     Append(acc, SegmentMapping(segment.start, segment.end, current_output,
                                                current_output + Duration(segment))))

RECURSIVE SegmentMappingsKeepEmptyLoop(_, _, _, _)
SegmentMappingsKeepEmptyLoop(segs, k, current_output, acc) ==
    IF k > Len(segs) THEN acc
    ELSE LET segment == segs[k]
         IN IF Duration(segment) < 0
            THEN SegmentMappingsKeepEmptyLoop(segs, k + 1, current_output, acc)
            ELSE SegmentMappingsKeepEmptyLoop(segs, k + 1, current_output + Duration(segment),
                     Append(acc, SegmentMapping(segment.start, segment.end, current_output,
                                                current_output + Duration(segment))))

\* a mapper that skips only the segments of negative duration
SegmentMappingsKeepEmpty(segs) == SegmentMappingsKeepEmptyLoop(segs, 1, 0, <<>>)

_segment_mappings(segs) == SegmentMappingsLoop(segs, 1, 0, <<>>)

-----------------------------------------------------------------------------
(* xml_parser.py: clip items.  A <clipitem> element is a record; its id is  *)
(* the text base + tag + n ("a", "a_cut2", "a_seg1"); origin is the index   *)
(* of the original clip item in its track of the source document, kept so   *)
(* that a property can name the clip a fragment was cloned from.            *)

ClipId(base, tag, n) == [base |-> base, tag |-> tag, n |-> n]

ClipItemData(elem) ==
    [id |-> elem.id.base,
     start |-> elem.start,
     end |-> elem.end,
     in_frame |-> elem.in_frame,
     out_frame |-> elem.out_frame,
     element |-> elem]

_parse_track(track_elem) ==
    SortByStart([i \in 1..Len(track_elem) |-> ClipItemData(track_elem[i])])

-----------------------------------------------------------------------------
(* timeline.py: _clone_clipitem and _build_track *)

\* a placement that forgets the offset inside the segment
PlacementAtSegmentStart(clip, mapping) ==
    LET overlap_start == Max(clip.start, mapping.source_start)
        overlap_end == Min(clip.end, mapping.source_end)
        new_start == mapping.output_start
        new_in == clip.in_frame + (overlap_start - clip.start)
    IN [new_start |-> new_start,
        new_end |-> new_start + (overlap_end - overlap_start),
        new_in |-> new_in,
        new_out |-> new_in + (overlap_end - overlap_start)]

\* a placement that takes the source in-point from the offset inside the segment
PlacementInFromSegment(clip, mapping) ==
    LET overlap_start == Max(clip.start, mapping.source_start)
        overlap_end == Min(clip.end, mapping.source_end)
        offset_within_segment == overlap_start - mapping.source_start
        new_start == mapping.output_start + offset_within_segment
        new_in == clip.in_frame + offset_within_segment
    IN [new_start |-> new_start,
        new_end |-> new_start + (overlap_end - overlap_start),
        new_in |-> new_in,
        new_out |-> new_in + (overlap_end - overlap_start)]

\* a placement that lets a fragment run to the end of the segment
PlacementKeepsSegmentEnd(clip, mapping) ==
    LET overlap_start == Max(clip.start, mapping.source_start)
        overlap_end == mapping.source_end
        new_start == mapping.output_start + (overlap_start - mapping.source_start)
        new_in == clip.in_frame + (overlap_start - clip.start)
    IN [new_start |-> new_start,
        new_end |-> new_start + (overlap_end - overlap_start),
        new_in |-> new_in,
        new_out |-> new_in + (overlap_end - overlap_start)]

\* lines 129-138: where a clip's part inside a mapping goes
Placement(clip, mapping) ==
    LET overlap_start == Max(clip.start, mapping.source_start)
        overlap_end == Min(clip.end, mapping.source_end)
        offset_within_segment == overlap_start - mapping.source_start
        new_start == mapping.output_start + offset_within_segment
        new_end == new_start + (overlap_end - overlap_start)
        new_in == clip.in_frame + (overlap_start - clip.start)
        new_out == new_in + (overlap_end - overlap_start)
    IN [new_start |-> new_start, new_end |-> new_end, new_in |-> new_in, new_out |-> new_out]

\* an overlap test that passes only for the mapping the clip starts in
OverlapsWhereClipStarts(clip, mapping) ==
    /\ mapping.source_start <= clip.start
    /\ clip.start < Min(clip.end, mapping.source_end)

\* lines 127-132: whether the clip yields a fragment for the mapping
Overlaps(clip, mapping) ==
    /\ ~(clip.end <= mapping.source_start \/ clip.start >= mapping.source_end)
    /\ Min(clip.end, mapping.source_end) > Max(clip.start, mapping.source_start)

\* a clone that keeps the <link> children of the original
CloneKeepingLinks(clip, new_start, new_end, new_in, new_out, counter) ==
    [clip.element EXCEPT
        !.id = ClipId(clip.id, "_cut", counter),
        !.start = new_start,
        !.end = new_end,
        !.in_frame = new_in,
        !.out_frame = new_out,
        !.duration = Max(0, new_end - new_start)]

_clone_clipitem(clip, new_start, new_end, new_in, new_out, counter) ==
    [clip.element EXCEPT
        !.id = ClipId(clip.id, "_cut", counter),
        !.start = new_start,
        !.end = new_end,
        !.in_frame = new_in,
        !.out_frame = new_out,
        !.duration = Max(0, new_end - new_start),
        !.links = 0]

CounterOf(id_counters, id) == IF id \in DOMAIN id_counters THEN id_counters[id] ELSE 0

RECURSIVE BuildTrackLoop(_, _, _, _, _)
\* the nested loops of lines 125-141, mapping m, clip c; st holds new_clips and id_counters
BuildTrackLoop(clipitems, maps, m, c, st) ==
    IF m > Len(maps) THEN st
    ELSE IF c > Len(clipitems) THEN BuildTrackLoop(clipitems, maps, m + 1, 1, st)
    ELSE LET clip == clipitems[c]
             mapping == maps[m]
         IN IF ~Overlaps(clip, mapping)
            THEN BuildTrackLoop(clipitems, maps, m, c + 1, st)
            ELSE LET p == Placement(clip, mapping)
                     counter == CounterOf(st.id_counters, clip.id) + 1
                     new_clip == _clone_clipitem(clip, p.new_start, p.new_end,
                                                 p.new_in, p.new_out, counter)
                 IN BuildTrackLoop(clipitems, maps, m, c + 1,
                        [new_clips |-> Append(st.new_clips, new_clip),
                         id_counters |-> [id \in DOMAIN st.id_counters \cup {clip.id} |->
                                            IF id = clip.id THEN counter
                                            ELSE st.id_counters[id]]])

\* a rebuild that leaves the original clip items in the copied track
BuildTrackKeepingOriginals(clipitems, maps) ==
    [i \in 1..Len(clipitems) |-> clipitems[i].element]
    \o SortByStart(BuildTrackLoop(clipitems, maps, 1, 1,
                       [new_clips |-> <<>>, id_counters |-> <<>>]).new_clips)

_build_track(clipitems, maps) ==
    SortByStart(BuildTrackLoop(clipitems, maps, 1, 1,
                    [new_clips |-> <<>>, id_counters |-> <<>>]).new_clips)

TotalDuration(maps) == IF maps # <<>> THEN maps[Len(maps)].output_end ELSE 0

SetChild(elem, tag, value) == [t \in DOMAIN elem \cup {tag} |-> IF t = tag THEN value ELSE elem[t]]

\* a finalisation that leaves the timecode record as it was
UpdateMetadataSkippingTimecode(elem, total) ==
    SetChild(SetChild(SetChild(elem, "in", 0), "out", total), "duration", total)

update_sequence_metadata(elem, total) ==
    LET e1 == SetChild(SetChild(SetChild(elem, "in", 0), "out", total), "duration", total)
    IN IF "timecode" \in DOMAIN e1
       THEN [e1 EXCEPT !.timecode = SetChild(e1.timecode, "duration", total)]
       ELSE e1

\* lines 185-206: every video track and every audio track is rebuilt from its TrackData
RebuiltTracks(tracks, maps) == [t \in 1..Len(tracks) |-> _build_track(tracks[t], maps)]

-----------------------------------------------------------------------------
(* app/xml_processor.py: the GUI pipeline's reconstruction *)

RECURSIVE MergeIntervalsLoop(_, _, _, _)
MergeIntervalsLoop(intervals, k, gap_tolerance, merged) ==
    IF k > Len(intervals) THEN merged
    ELSE LET iv == intervals[k]
         IN IF iv.end <= iv.start
            THEN MergeIntervalsLoop(intervals, k + 1, gap_tolerance, merged)
            ELSE IF merged = <<>>
            THEN MergeIntervalsLoop(intervals, k + 1, gap_tolerance, <<iv>>)
            ELSE LET last == merged[Len(merged)]
                 IN IF iv.start <= last.end + gap_tolerance
                    THEN MergeIntervalsLoop(intervals, k + 1, gap_tolerance,
                             [merged EXCEPT ![Len(merged)].end = Max(last.end, iv.end)])
                    ELSE MergeIntervalsLoop(intervals, k + 1, gap_tolerance, Append(merged, iv))

_merge_intervals(intervals, gap_tolerance) == MergeIntervalsLoop(intervals, 1, gap_tolerance, <<>>)

\* _parse_clip_item returns None for a clip item whose end <= start
GuiClipParsed(clip_elem) == clip_elem.end > clip_elem.start

GuiClipId(clip_elem) ==
    IF clip_elem.id.tag = "" THEN clip_elem.id.base ELSE clip_elem.id

\* lines 360-381: the clone emitted for one overlap
GuiNewClip(clip_elem, overlap_start, overlap_end, count) ==
    LET new_in == clip_elem.in_frame + (overlap_start - clip_elem.start)
    IN [clip_elem EXCEPT
           !.id = ClipId(GuiClipId(clip_elem), "_seg", count),
           !.start = overlap_start,
           !.end = overlap_end,
           !.in_frame = new_in,
           !.out_frame = new_in + (overlap_end - overlap_start),
           !.duration = IF clip_elem.duration # NoValue
                        THEN overlap_end - overlap_start ELSE NoValue,
           !.links = 0]

RECURSIVE RebuildTrackLoop(_, _, _, _, _)
\* the nested loops of lines 345-383, clip c, interval k; st holds the new track and clip_counts
RebuildTrackLoop(track, intervals, c, k, st) ==
    IF c > Len(track) THEN st
    ELSE IF ~GuiClipParsed(track[c]) \/ k > Len(intervals)
    THEN RebuildTrackLoop(track, intervals, c + 1, 1, st)
    ELSE LET clip_elem == track[c]
             overlap_start == Max(clip_elem.start, intervals[k].start)
             overlap_end == Min(clip_elem.end, intervals[k].end)
         IN IF overlap_end - overlap_start <= 0
            THEN RebuildTrackLoop(track, intervals, c, k + 1, st)
            ELSE LET clip_id == GuiClipId(clip_elem)
                     count == CounterOf(st.clip_counts, clip_id) + 1
                 IN RebuildTrackLoop(track, intervals, c, k + 1,
                        [new_track |-> Append(st.new_track,
                                           GuiNewClip(clip_elem, overlap_start, overlap_end, count)),
                         clip_counts |-> [id \in DOMAIN st.clip_counts \cup {clip_id} |->
                                            IF id = clip_id THEN count
                                            ELSE st.clip_counts[id]]])

_rebuild_track(track, intervals, clip_counts) ==
    RebuildTrackLoop(track, intervals, 1, 1, [new_track |-> <<>>, clip_counts |-> clip_counts])

RECURSIVE ApplyCutsVideo(_, _, _, _)
\* lines 307-314: every video track is rebuilt, sharing clip_counts
ApplyCutsVideo(tracks, intervals, t, st) ==
    IF t > Len(tracks) THEN st
    ELSE LET r == _rebuild_track(tracks[t], intervals, st.clip_counts)
         IN ApplyCutsVideo(tracks, intervals, t + 1,
                [tracks |-> Append(st.tracks, r.new_track), clip_counts |-> r.clip_counts])

\* lines 316-329: only the first audio track is rebuilt
ApplyCutsAudio(tracks, intervals, clip_counts) ==
    IF tracks = <<>> THEN tracks
    ELSE [tracks EXCEPT ![1] = _rebuild_track(tracks[1], intervals, clip_counts).new_track]

_update_sequence_duration(elem, intervals) ==
    LET new_end == IF intervals = <<>> THEN 0 ELSE intervals[Len(intervals)].end
    IN [t \in DOMAIN elem |-> IF t \in {"out", "end", "duration"} THEN new_end ELSE elem[t]]

-----------------------------------------------------------------------------
(* The inputs of a reconstruction run *)

\* the two kinds of clip item of the modelled documents: id, source in-point, how far the
\* <out> of the document falls short of in + (end - start), <link> children, <duration>
ClipKinds ==
    {[base |-> "a", in_frame |-> 2, slack |-> 0, links |-> 2, duration |-> 9],
     [base |-> "b", in_frame |-> 0, slack |-> 1, links |-> 0, duration |-> NoValue]}

MakeClipElem(kind, s, e, idx) ==
    [id |-> ClipId(kind.base, "", 0),
     start |-> s,
     end |-> e,
     in_frame |-> kind.in_frame,
     out_frame |-> kind.in_frame + (e - s) - kind.slack,
     duration |-> kind.duration,
     links |-> kind.links,
     origin |-> idx]

ClipChoices ==
    {[kind |-> k, start |-> s, end |-> e] : k \in ClipKinds,
                                            s \in 0..MaxFrame, e \in 0..MaxFrame}

ClipChoicesOnTimeline == {c \in ClipChoices : c.start < c.end}

\* the <track> elements holding n clip items, in document order
TracksOfLen(n) ==
    {[i \in 1..n |-> MakeClipElem(q[i].kind, q[i].start, q[i].end, i)] :
        q \in SeqsOfLen(ClipChoicesOnTimeline, n)}

RECURSIVE DocTracks(_, _)
\* the lists of `slots` tracks holding at most `budget` clip items together
DocTracks(slots, budget) ==
    IF slots = 0 THEN {<<>>}
    ELSE UNION {{<<t>> \o rest : t \in TracksOfLen(n), rest \in DocTracks(slots - 1, budget - n)} :
                    n \in 0..budget}

RawSegments == {TimelineSegment(s, e) : s \in 0..MaxFrame, e \in 1..MaxFrame}

\* what compute_preserved_segments returns: lines 173-176 keep end > start and merge
PreservedLists ==
    {_merge_segments(l) : l \in SeqsUpTo({g \in RawSegments : g.end > g.start}, MaxSegs)}

SeqElems ==
    {[in |-> 1, out |-> 9, duration |-> 9, timecode |-> [duration |-> 9]],
     [duration |-> 9, end |-> 9]}

InitGeneral ==
    /\ \E d \in DocTracks(3, MaxClips) :
          /\ doc_video = <<d[1]>>
          /\ doc_audio = <<d[2], d[3]>>
    /\ segments \in PreservedLists
    /\ seq_elem \in SeqElems

\* Scenario B of the specification: segments [0,5) and [10,15), one clip on [3,12)
InitScenarioB ==
    /\ \E k \in ClipKinds : doc_video = << <<MakeClipElem(k, 3, 12, 1)>> >>
    /\ doc_audio = << <<>> >>
    /\ segments = <<TimelineSegment(0, 5), TimelineSegment(10, 15)>>
    /\ seq_elem \in SeqElems

\* a document whose only clip item has end <= start, which _parse_clipitem accepts
InitDegenerate ==
    /\ \E c \in ClipChoices \ ClipChoicesOnTimeline :
          doc_video = << <<MakeClipElem(c.kind, c.start, c.end, 1)>> >>
    /\ doc_audio = << <<>>, <<>> >>
    /\ segments \in PreservedLists
    /\ seq_elem \in SeqElems

Init ==
    /\ pc = "analysed"
    /\ (InitGeneral \/ InitScenarioB \/ InitDegenerate)
    /\ video_tracks = [t \in 1..Len(doc_video) |-> _parse_track(doc_video[t])]
    /\ audio_tracks = [t \in 1..Len(doc_audio) |-> _parse_track(doc_audio[t])]
    /\ mappings = <<>>
    /\ total_duration = NoValue
    /\ warnings = 0
    /\ exit_code = NoValue
    /\ written = FALSE
    /\ IdleLists
    /\ IdleDetect
    /\ IdleRun
    /\ IdleSections
    /\ IdleCache

-----------------------------------------------------------------------------
(* The command-line run from the return of compute_preserved_segments on     *)
(* (cli.py lines 101-112)                                                    *)

\* cli.py 101-104 with timeline.py rebuild_sequence_tracks
CliRebuild ==
    /\ pc = "analysed"
    /\ warnings' = IF segments = <<>> THEN warnings + 1 ELSE warnings
    /\ mappings' = _segment_mappings(segments)
    /\ total_duration' = TotalDuration(mappings')
    /\ doc_video' = RebuiltTracks(video_tracks, mappings')
    /\ doc_audio' = RebuiltTracks(audio_tracks, mappings')
    /\ pc' = "rebuilt"
    /\ UNCHANGED <<video_tracks, audio_tracks, segments, seq_elem, exit_code, written>>
    /\ UNCHANGED <<listVars, detectVars, runVars, sectionVars, cacheVars>>

\* cli.py 105
CliUpdateMetadata ==
    /\ pc = "rebuilt"
    /\ seq_elem' = update_sequence_metadata(seq_elem, total_duration)
    /\ pc' = "finalised"
    /\ UNCHANGED <<doc_video, doc_audio, video_tracks, audio_tracks, segments, mappings,
                   total_duration, warnings, exit_code, written>>
    /\ UNCHANGED <<listVars, detectVars, runVars, sectionVars, cacheVars>>

\* cli.py 107-112
CliWrite ==
    /\ pc = "finalised"
    /\ written' = TRUE
    /\ exit_code' = 0
    /\ pc' = "done"
    /\ UNCHANGED <<doc_video, doc_audio, video_tracks, audio_tracks, segments, mappings,
                   total_duration, seq_elem, warnings>>
    /\ UNCHANGED <<listVars, detectVars, runVars, sectionVars, cacheVars>>

(* The GUI run from the merge of the detected intervals on                   *)
(* (xml_processor.py lines 123-136)                                          *)

\* xml_processor.py 123-130 with _apply_cuts_to_tracks
GuiApplyCuts ==
    /\ pc = "analysed"
    /\ warnings' = IF segments = <<>> THEN warnings + 1 ELSE warnings
    /\ LET video == ApplyCutsVideo(doc_video, segments, 1, [tracks |-> <<>>, clip_counts |-> <<>>])
       IN /\ doc_video' = video.tracks
          /\ doc_audio' = ApplyCutsAudio(doc_audio, segments, video.clip_counts)
    /\ pc' = "gui_cut"
    /\ UNCHANGED <<video_tracks, audio_tracks, segments, mappings, total_duration, seq_elem,
                   exit_code, written>>
    /\ UNCHANGED <<listVars, detectVars, runVars, sectionVars, cacheVars>>

\* xml_processor.py 132
GuiUpdateDuration ==
    /\ pc = "gui_cut"
    /\ seq_elem' = _update_sequence_duration(seq_elem, segments)
    /\ pc' = "gui_finalised"
    /\ UNCHANGED <<doc_video, doc_audio, video_tracks, audio_tracks, segments, mappings,
                   total_duration, warnings, exit_code, written>>
    /\ UNCHANGED <<listVars, detectVars, runVars, sectionVars, cacheVars>>

\* xml_processor.py 134-136
GuiWrite ==
    /\ pc = "gui_finalised"
    /\ written' = TRUE
    /\ pc' = "gui_done"
    /\ UNCHANGED <<doc_video, doc_audio, video_tracks, audio_tracks, segments, mappings,
                   total_duration, seq_elem, warnings, exit_code>>
    /\ UNCHANGED <<listVars, detectVars, runVars, sectionVars, cacheVars>>

Next ==
    \/ CliRebuild
    \/ CliUpdateMetadata
    \/ CliWrite
    \/ GuiApplyCuts
    \/ GuiUpdateDuration
    \/ GuiWrite

Spec == Init /\ [][Next]_vars

-----------------------------------------------------------------------------
(* audio_analysis.py: the merge that ends _detect_segments (lines 101-111)   *)

RECURSIVE SecondsMergeLoop(_, _, _)
SecondsMergeLoop(sorted, k, merged) ==
    IF k > Len(sorted) THEN merged
    ELSE LET iv == sorted[k]
             last == merged[Len(merged)]
         IN IF iv.start <= last.end
            THEN SecondsMergeLoop(sorted, k + 1,
                     [merged EXCEPT ![Len(merged)].end = Max(last.end, iv.end)])
            ELSE SecondsMergeLoop(sorted, k + 1, Append(merged, iv))

MergePadded(padded_segments) ==
    IF padded_segments = <<>> THEN <<>>
    ELSE LET sorted == SortByStart(padded_segments)
         IN SecondsMergeLoop(sorted, 2, <<sorted[1]>>)

-----------------------------------------------------------------------------
(* Calls of the list functions on arbitrary lists *)

MaxTime == 3
MaxLen == 3

\* every pair of numbers, the empty and the inverted ones included
Intervals == {TimelineSegment(a, b) : a \in 0..MaxTime, b \in 0..MaxTime}

IntervalLists == SeqsUpTo(Intervals, MaxLen)

\* the order of Python's sorted() on tuples
TupleLeq(x, y) == x.start < y.start \/ (x.start = y.start /\ x.end <= y.end)

IsSortedList(l) == \A k \in 1..(Len(l) - 1) : TupleLeq(l[k], l[k + 1])

ListFunctions == {"_segment_mappings", "_merge_segments", "_detect_segments", "_merge_intervals"}

InitLists ==
    /\ IdleTimeline
    /\ IdleDetect
    /\ IdleRun
    /\ IdleSections
    /\ IdleCache
    /\ list_fn \in ListFunctions
    /\ list_tol \in IF list_fn = "_merge_intervals" THEN {0, 1} ELSE {0}
    /\ list_arg \in IF list_fn = "_merge_intervals"
                    THEN {l \in IntervalLists : IsSortedList(l)}
                    ELSE IntervalLists
    /\ list_out = <<>>

\* what the next call is given: the caller's list, then the value last returned
ListInput == IF list_out = <<>> THEN list_arg ELSE list_out[Len(list_out)]

CallSegmentMappings ==
    /\ list_fn = "_segment_mappings"
    /\ list_out = <<>>
    /\ list_out' = <<_segment_mappings(list_arg)>>
    /\ UNCHANGED <<list_fn, list_arg, list_tol, timelineVars, detectVars, runVars, sectionVars, cacheVars>>

CallMergeSegments ==
    /\ list_fn = "_merge_segments"
    /\ Len(list_out) < 2
    /\ list_out' = Append(list_out, _merge_segments(ListInput))
    /\ UNCHANGED <<list_fn, list_arg, list_tol, timelineVars, detectVars, runVars, sectionVars, cacheVars>>

CallMergePadded ==
    /\ list_fn = "_detect_segments"
    /\ Len(list_out) < 2
    /\ list_out' = Append(list_out, MergePadded(ListInput))
    /\ UNCHANGED <<list_fn, list_arg, list_tol, timelineVars, detectVars, runVars, sectionVars, cacheVars>>

CallMergeIntervals ==
    /\ list_fn = "_merge_intervals"
    /\ Len(list_out) < 2
    /\ list_out' = Append(list_out, _merge_intervals(ListInput, list_tol))
    /\ UNCHANGED <<list_fn, list_arg, list_tol, timelineVars, detectVars, runVars, sectionVars, cacheVars>>

NextLists ==
    \/ CallSegmentMappings
    \/ CallMergeSegments
    \/ CallMergePadded
    \/ CallMergeIntervals

SpecLists == InitLists /\ [][NextLists]_vars

-----------------------------------------------------------------------------
(* audio_analysis.py: _detect_segments, one call                             *)

MaxSamples == 9

\* n seconds, in ticks
Seconds(n) == 2 * n

Amplitudes == {0, 1}
SampleRates == {1, 2}

\* frame_window, min_silence, min_clip and padding in ticks; silence_threshold a fraction
SettingsChoices ==
    [frame_window : {1, 2, 3},
     silence_threshold : {[num |-> 1, den |-> 2], [num |-> 1, den |-> 1]},
     min_silence : {2, 4},
     min_clip : {0, 2},
     padding : {0, 1}]

RECURSIVE SumSquares(_, _, _)
\* the sum of the squares of samples[from..to]
SumSquares(samples, from, to) ==
    IF from > to THEN 0
    ELSE samples[from] * samples[from] + SumSquares(samples, from + 1, to)

\* lines 48-54: window number w (from 0) holds samples [start, end) and its RMS is the
\* square root of the mean square kept here
WindowMeanSquare(samples, w_samples, w) ==
    LET start == w * w_samples
        end == Min(start + w_samples, Len(samples))
    IN [num |-> SumSquares(samples, start + 1, end), den |-> end - start]

WindowCount(size, w_samples) == (size + w_samples - 1) \div w_samples

\* line 65: rms >= silence_threshold, both sides squared
IsLoud(mean_square, threshold) ==
    mean_square.num * threshold.den * threshold.den
        >= threshold.num * threshold.num * mean_square.den

\* a run that is closed at the window that closes it instead of at the last loud time
EndTimeAtFallback(loud_time, fallback) == fallback

\* lines 75 and 84
EndTime(loud_time, fallback) == IF loud_time # NoValue THEN loud_time ELSE fallback

\* lines 76-77 and 85-86
WithRun(runs, run_start, end_time) ==
    IF end_time > run_start THEN Append(runs, [start |-> run_start, end |-> end_time]) ELSE runs

\* a close of the run that leaves the silence counted so far in place
RunClearedKeepingSilence ==
    [current_start |-> NoValue, last_loud_time |-> NoValue,
     accumulated_silence |-> accumulated_silence]

\* lines 79-81: the run state after a run is closed
RunCleared ==
    [current_start |-> NoValue, last_loud_time |-> NoValue, accumulated_silence |-> 0]

RECURSIVE PaddedSegments(_, _, _, _)
\* lines 89-97
PaddedSegments(runs, k, s, total) ==
    IF k > Len(runs) THEN <<>>
    ELSE LET rest == PaddedSegments(runs, k + 1, s, total)
         IN IF runs[k].end - runs[k].start < s.min_clip
            THEN rest
            ELSE <<[start |-> Max(0, runs[k].start - s.padding),
                    end |-> Min(total, runs[k].end + s.padding)]>> \o rest

InitDetect ==
    /\ IdleTimeline
    /\ IdleLists
    /\ IdleRun
    /\ IdleSections
    /\ IdleCache
    /\ detect_pc = "called"
    /\ mono_audio \in SeqsUpTo(Amplitudes, MaxSamples)
    /\ sample_rate \in SampleRates
    /\ settings \in SettingsChoices
    /\ window_samples = NoValue
    /\ audio_duration = NoValue
    /\ rms_values = <<>>
    /\ index = NoValue
    /\ current_start = NoValue
    /\ last_loud_time = NoValue
    /\ accumulated_silence = 0
    /\ non_silent_segments = <<>>
    /\ detected = NoValue

\* lines 40-41
DetectEmpty ==
    /\ detect_pc = "called"
    /\ mono_audio = <<>>
    /\ detected' = <<>>
    /\ detect_pc' = "returned"
    /\ UNCHANGED <<mono_audio, sample_rate, settings, window_samples, audio_duration,
                   rms_values, index, current_start, last_loud_time, accumulated_silence,
                   non_silent_segments>>
    /\ UNCHANGED <<timelineVars, listVars, runVars, sectionVars, cacheVars>>

\* lines 43-60
DetectWindows ==
    /\ detect_pc = "called"
    /\ mono_audio # <<>>
    /\ window_samples' = Max(1, (sample_rate * settings.frame_window) \div Seconds(1))
    /\ audio_duration' = Seconds(Len(mono_audio)) \div sample_rate
    /\ rms_values' = [w \in 1..WindowCount(Len(mono_audio), window_samples') |->
                         WindowMeanSquare(mono_audio, window_samples', w - 1)]
    /\ index' = 0
    /\ current_start' = NoValue
    /\ last_loud_time' = NoValue
    /\ accumulated_silence' = 0
    /\ non_silent_segments' = <<>>
    /\ detect_pc' = "scanning"
    /\ UNCHANGED <<mono_audio, sample_rate, settings, detected>>
    /\ UNCHANGED <<timelineVars, listVars, runVars, sectionVars, cacheVars>>

\* lines 62-81: one turn of the state-machine loop
DetectStep ==
    /\ detect_pc = "scanning"
    /\ index < Len(rms_values)
    /\ LET frame_start == index * settings.frame_window
           frame_end == Min(frame_start + settings.frame_window, audio_duration)
           silence == accumulated_silence + (frame_end - frame_start)
       IN IF IsLoud(rms_values[index + 1], settings.silence_threshold)
          THEN /\ current_start' = IF current_start = NoValue THEN frame_start
                                   ELSE current_start
               /\ last_loud_time' = frame_end
               /\ accumulated_silence' = 0
               /\ UNCHANGED non_silent_segments
          ELSE IF current_start = NoValue
          THEN UNCHANGED <<current_start, last_loud_time, accumulated_silence,
                           non_silent_segments>>
          ELSE IF silence >= settings.min_silence
          THEN /\ non_silent_segments' =
                      WithRun(non_silent_segments, current_start,
                              EndTime(last_loud_time, frame_start))
               /\ current_start' = RunCleared.current_start
               /\ last_loud_time' = RunCleared.last_loud_time
               /\ accumulated_silence' = RunCleared.accumulated_silence
          ELSE /\ accumulated_silence' = silence
               /\ UNCHANGED <<current_start, last_loud_time, non_silent_segments>>
    /\ index' = index + 1
    /\ UNCHANGED <<detect_pc, mono_audio, sample_rate, settings, window_samples,
                   audio_duration, rms_values, detected>>
    /\ UNCHANGED <<timelineVars, listVars, runVars, sectionVars, cacheVars>>

\* lines 83-86: the run still open when the windows end
DetectClose ==
    /\ detect_pc = "scanning"
    /\ index = Len(rms_values)
    /\ non_silent_segments' =
          IF current_start # NoValue
          THEN WithRun(non_silent_segments, current_start,
                       EndTime(last_loud_time, audio_duration))
          ELSE non_silent_segments
    /\ detect_pc' = "scanned"
    /\ UNCHANGED <<mono_audio, sample_rate, settings, window_samples, audio_duration,
                   rms_values, index, current_start, last_loud_time, accumulated_silence,
                   detected>>
    /\ UNCHANGED <<timelineVars, listVars, runVars, sectionVars, cacheVars>>

\* lines 88-111: min_clip, padding, merge, return
DetectPostProcess ==
    /\ detect_pc = "scanned"
    /\ detected' = MergePadded(PaddedSegments(non_silent_segments, 1, settings, audio_duration))
    /\ detect_pc' = "returned"
    /\ UNCHANGED <<mono_audio, sample_rate, settings, window_samples, audio_duration,
                   rms_values, index, current_start, last_loud_time, accumulated_silence,
                   non_silent_segments>>
    /\ UNCHANGED <<timelineVars, listVars, runVars, sectionVars, cacheVars>>

NextDetect ==
    \/ DetectEmpty
    \/ DetectWindows
    \/ DetectStep
    \/ DetectClose
    \/ DetectPostProcess

SpecDetect == InitDetect /\ [][NextDetect]_vars

-----------------------------------------------------------------------------
(* A whole run, from the input file to the output file: run_from_args with   *)
(* load_sequence and compute_preserved_segments (command line), process_xml  *)
(* (GUI).  What a clip's audio holds is not modelled here: the intervals     *)
(* found in a readable file are any ordered list of frame offsets.           *)

MaxRunFrame == 4
MaxRunClips == 2
MaxDetections == 2

\* the frame rate of a document that has a <rate> element
DocumentRate == 24

\* a media file that decodes, one that cannot be opened or decoded, no <pathurl> at all
MediaKinds == {"readable", "unreadable", "no_path"}

\* the first kind of clip item only: which children a clip item carries plays no part here
RunClipElems(idx) ==
    {MakeClipElem(k, s, e, idx) : k \in {q \in ClipKinds : q.base = "a"},
                                  s \in 0..MaxRunFrame, e \in 1..MaxRunFrame}

RunTracks ==
    UNION {{t \in [1..n -> UNION {RunClipElems(i) : i \in 1..n}] :
               \A i \in 1..n : t[i].origin = i /\ t[i].start < t[i].end} : n \in 0..MaxRunClips}

\* the start and end of the intervals found in one clip, already converted to frames by
\* _seconds_to_frames (timeline.py 169-170) or _milliseconds_to_frames (xml_processor.py
\* 117-118): ordered, and an interval shorter than a frame may round to an empty one
Detections ==
    {d \in SeqsUpTo({TimelineSegment(a, b) : a \in 0..MaxRunFrame, b \in 0..MaxRunFrame},
                    MaxDetections) :
        /\ \A k \in 1..Len(d) : d[k].start <= d[k].end
        /\ \A k \in 1..(Len(d) - 1) : d[k].end <= d[k + 1].start}

\* the children of the <sequence> element of the modelled documents
RunSeqElem == [in |-> 1, out |-> 9, duration |-> 9, timecode |-> [duration |-> 9]]

\* a file that does not exist holds nothing, and <rate> is a child of <sequence>
InitRun ==
    /\ pc = "start"
    /\ pipeline \in {"cli", "gui"}
    /\ input \in [exists : BOOLEAN, has_sequence : BOOLEAN, has_rate : BOOLEAN]
    /\ (input.has_sequence => input.exists)
    /\ (input.has_rate => input.has_sequence)
    /\ IF input.has_sequence
       THEN /\ doc_video \in {<< <<>> >>, << <<MakeClipElem(CHOOSE k \in ClipKinds : k.base = "b",
                                                            0, 2, 1)>> >>}
            /\ \E first \in RunTracks :
                  /\ doc_audio \in {<<>>, <<first>>, <<first, first>>}
                  /\ doc_audio = <<>> => first = <<>>
                  /\ media \in [1..Len(first) -> MediaKinds]
       ELSE /\ doc_video = <<>>
            /\ doc_audio = <<>>
            /\ media = <<>>
    /\ seq_elem = RunSeqElem
    /\ video_tracks = <<>>
    /\ audio_tracks = <<>>
    /\ segments = <<>>
    /\ mappings = <<>>
    /\ total_duration = NoValue
    /\ warnings = 0
    /\ exit_code = NoValue
    /\ written = FALSE
    /\ fps = NoValue
    /\ clip_index = 0
    /\ collected = <<>>
    /\ analysed = {}
    /\ failure = "none"
    /\ IdleLists
    /\ IdleDetect
    /\ IdleSections
    /\ IdleCache

\* a fatal error: the run ends where it is
Fails(kind, code) ==
    /\ failure' = kind
    /\ exit_code' = code
    /\ pc' = "failed"
    /\ UNCHANGED <<doc_video, doc_audio, video_tracks, audio_tracks, segments, mappings,
                   total_duration, seq_elem, warnings, written>>
    /\ UNCHANGED <<pipeline, input, media, fps, clip_index, collected, analysed>>
    /\ UNCHANGED <<listVars, detectVars, sectionVars, cacheVars>>

\* cli.py 81-83: return 1
CliInputMissing ==
    /\ pipeline = "cli"
    /\ pc = "start"
    /\ ~input.exists
    /\ Fails("input_missing", 1)

\* load_sequence raises ValueError, which run_from_args does not catch
CliNoSequence ==
    /\ pipeline = "cli"
    /\ pc = "start"
    /\ input.exists
    /\ ~input.has_sequence
    /\ Fails("no_sequence", NoValue)

\* _parse_fractional_rate: 25 frames per second for a sequence without <rate>
_parse_fractional_rate(has_rate) == IF has_rate THEN DocumentRate ELSE 25

\* cli.py 85: load_sequence returns
CliLoad ==
    /\ pipeline = "cli"
    /\ pc = "start"
    /\ input.exists
    /\ input.has_sequence
    /\ fps' = _parse_fractional_rate(input.has_rate)
    /\ video_tracks' = [t \in 1..Len(doc_video) |-> _parse_track(doc_video[t])]
    /\ audio_tracks' = [t \in 1..Len(doc_audio) |-> _parse_track(doc_audio[t])]
    /\ pc' = "loaded"
    /\ UNCHANGED <<doc_video, doc_audio, segments, mappings, total_duration, seq_elem,
                   warnings, exit_code, written>>
    /\ UNCHANGED <<pipeline, input, media, clip_index, collected, analysed, failure>>
    /\ UNCHANGED <<listVars, detectVars, sectionVars, cacheVars>>

\* cli.py 86-88: return 1
CliNoAudioTracks ==
    /\ pipeline = "cli"
    /\ pc = "loaded"
    /\ audio_tracks = <<>>
    /\ Fails("no_audio_track", 1)

\* the clip the loop of compute_preserved_segments is at
CliCurrentClip == audio_tracks[1][clip_index + 1]

CliInLoop ==
    /\ pipeline = "cli"
    /\ pc = "loaded"
    /\ audio_tracks # <<>>
    /\ clip_index < Len(audio_tracks[1])

\* the loop passes a clip without appending anything
PassClip ==
    /\ clip_index' = clip_index + 1
    /\ warnings' = warnings + 1
    /\ UNCHANGED <<pc, doc_video, doc_audio, video_tracks, audio_tracks, segments, mappings,
                   total_duration, seq_elem, exit_code, written>>
    /\ UNCHANGED <<pipeline, input, media, fps, collected, analysed, failure>>
    /\ UNCHANGED <<listVars, detectVars, sectionVars, cacheVars>>

\* timeline.py 157-159
CliSkipClip ==
    /\ CliInLoop
    /\ media[CliCurrentClip.element.origin] = "no_path"
    /\ PassClip

\* an unreadable file that ends the run with what the earlier steps left and a partial output
ClipRaisesAfterWriting ==
    /\ CliInLoop
    /\ media[CliCurrentClip.element.origin] = "unreadable"
    /\ failure' = "analysis_error"
    /\ pc' = "failed"
    /\ written' = TRUE
    /\ UNCHANGED <<doc_video, doc_audio, video_tracks, audio_tracks, segments, mappings,
                   total_duration, seq_elem, warnings, exit_code>>
    /\ UNCHANGED <<pipeline, input, media, fps, clip_index, collected, analysed>>
    /\ UNCHANGED <<listVars, detectVars, sectionVars, cacheVars>>

\* audio_analysis.py 130-134: AudioFileClip raises OSError, detect_non_silent_sections logs
\* and raises it again; neither compute_preserved_segments nor run_from_args catches it
CliClipRaises ==
    /\ CliInLoop
    /\ media[CliCurrentClip.element.origin] = "unreadable"
    /\ Fails("analysis_error", NoValue)

\* timeline.py 168-174: the segments one clip adds for the intervals found in it
RECURSIVE ClipSegments(_, _, _)
ClipSegments(clip, clip_segments, k) ==
    IF k > Len(clip_segments) THEN <<>>
    ELSE LET timeline_start == Max(clip.start, Min(clip.start + clip_segments[k].start, clip.end))
             timeline_end == Max(clip.start, Min(clip.start + clip_segments[k].end, clip.end))
         IN (IF timeline_end > timeline_start
             THEN <<TimelineSegment(timeline_start, timeline_end)>>
             ELSE <<>>) \o ClipSegments(clip, clip_segments, k + 1)

\* timeline.py 160-174, the media file being readable
CliAnalyseClip ==
    /\ CliInLoop
    /\ media[CliCurrentClip.element.origin] = "readable"
    /\ \E clip_segments \in Detections :
          collected' = collected \o ClipSegments(CliCurrentClip, clip_segments, 1)
    /\ analysed' = analysed \cup {CliCurrentClip.element.origin}
    /\ clip_index' = clip_index + 1
    /\ UNCHANGED <<pc, doc_video, doc_audio, video_tracks, audio_tracks, segments, mappings,
                   total_duration, seq_elem, warnings, exit_code, written>>
    /\ UNCHANGED <<pipeline, input, media, fps, failure>>
    /\ UNCHANGED <<listVars, detectVars, sectionVars, cacheVars>>

\* timeline.py 176-178: compute_preserved_segments returns
CliMerge ==
    /\ pipeline = "cli"
    /\ pc = "loaded"
    /\ audio_tracks # <<>>
    /\ clip_index = Len(audio_tracks[1])
    /\ segments' = _merge_segments(collected)
    /\ pc' = "analysed"
    /\ UNCHANGED <<doc_video, doc_audio, video_tracks, audio_tracks, mappings, total_duration,
                   seq_elem, warnings, exit_code, written>>
    /\ UNCHANGED <<runVars, listVars, detectVars, sectionVars, cacheVars>>

\* cli.py 101-112 of a command-line run
CliReconstruct == pipeline = "cli" /\ (CliRebuild \/ CliUpdateMetadata \/ CliWrite)

\* xml_processor.py 61-62: XMLProcessingError
GuiInputMissing ==
    /\ pipeline = "gui"
    /\ pc = "start"
    /\ ~input.exists
    /\ Fails("input_missing", NoValue)

\* xml_processor.py 72-74: XMLProcessingError
GuiNoSequence ==
    /\ pipeline = "gui"
    /\ pc = "start"
    /\ input.exists
    /\ ~input.has_sequence
    /\ Fails("no_sequence", NoValue)

\* _resolve_timebase: 30 frames per second when no timebase is found
_resolve_timebase(has_rate) == IF has_rate THEN DocumentRate ELSE 30

\* xml_processor.py 79-81: XMLProcessingError
GuiNoAudioTrack ==
    /\ pipeline = "gui"
    /\ pc = "start"
    /\ input.exists
    /\ input.has_sequence
    /\ doc_audio = <<>>
    /\ Fails("no_audio_track", NoValue)

GuiHasMedia(clip) == GuiClipParsed(clip.element) /\ media[clip.element.origin] # "no_path"

\* _extract_clip_items(audio_track, fps, require_media=True)
GuiAudioClips(track_elem) == SelectSeq(_parse_track(track_elem), GuiHasMedia)

\* xml_processor.py 83-85: XMLProcessingError
GuiNoAudioClips ==
    /\ pipeline = "gui"
    /\ pc = "start"
    /\ input.exists
    /\ input.has_sequence
    /\ doc_audio # <<>>
    /\ GuiAudioClips(doc_audio[1]) = <<>>
    /\ Fails("no_audio_clips", NoValue)

\* xml_processor.py 64-89: the document is parsed and the clips to analyse are listed;
\* video_tracks and audio_tracks keep the clip items of the document as it was read
GuiLoad ==
    /\ pipeline = "gui"
    /\ pc = "start"
    /\ input.exists
    /\ input.has_sequence
    /\ doc_audio # <<>>
    /\ GuiAudioClips(doc_audio[1]) # <<>>
    /\ fps' = _resolve_timebase(input.has_rate)
    /\ video_tracks' = [t \in 1..Len(doc_video) |-> _parse_track(doc_video[t])]
    /\ audio_tracks' = [t \in 1..Len(doc_audio) |-> _parse_track(doc_audio[t])]
    /\ pc' = "loaded"
    /\ UNCHANGED <<doc_video, doc_audio, segments, mappings, total_duration, seq_elem,
                   warnings, exit_code, written>>
    /\ UNCHANGED <<pipeline, input, media, clip_index, collected, analysed, failure>>
    /\ UNCHANGED <<listVars, detectVars, sectionVars, cacheVars>>

GuiCurrentClip == GuiAudioClips(doc_audio[1])[clip_index + 1]

GuiInLoop ==
    /\ pipeline = "gui"
    /\ pc = "loaded"
    /\ clip_index < Len(GuiAudioClips(doc_audio[1]))

\* xml_processor.py 96-99: _load_audio_segment returns None for a file that is missing or
\* that AudioSegment.from_file cannot decode, and the loop continues
GuiSkipClip ==
    /\ GuiInLoop
    /\ media[GuiCurrentClip.element.origin] = "unreadable"
    /\ PassClip

\* xml_processor.py 116-121: the intervals one clip adds
RECURSIVE GuiClipIntervals(_, _, _)
GuiClipIntervals(clip, found, k) ==
    IF k > Len(found) THEN <<>>
    ELSE LET start_frame == clip.start + found[k].start
             end_frame == Min(clip.start + found[k].end, clip.end)
         IN (IF end_frame > start_frame
             THEN <<TimelineSegment(start_frame, end_frame)>>
             ELSE <<>>) \o GuiClipIntervals(clip, found, k + 1)

\* xml_processor.py 101-121, the media file being readable
GuiAnalyseClip ==
    /\ GuiInLoop
    /\ media[GuiCurrentClip.element.origin] = "readable"
    /\ \E found \in Detections :
          collected' = collected \o GuiClipIntervals(GuiCurrentClip, found, 1)
    /\ analysed' = analysed \cup {GuiCurrentClip.element.origin}
    /\ clip_index' = clip_index + 1
    /\ UNCHANGED <<pc, doc_video, doc_audio, video_tracks, audio_tracks, segments, mappings,
                   total_duration, seq_elem, warnings, exit_code, written>>
    /\ UNCHANGED <<pipeline, input, media, fps, failure>>
    /\ UNCHANGED <<listVars, detectVars, sectionVars, cacheVars>>

\* sorted() of a list of (start, end) tuples
RECURSIVE InsertTuple(_, _)
InsertTuple(sorted, x) ==
    IF sorted = <<>> THEN <<x>>
    ELSE LET last == sorted[Len(sorted)]
         IN IF TupleLeq(last, x)
            THEN Append(sorted, x)
            ELSE Append(InsertTuple(SubSeq(sorted, 1, Len(sorted) - 1), x), last)

RECURSIVE SortTuplesUpTo(_, _)
SortTuplesUpTo(s, n) ==
    IF n = 0 THEN <<>> ELSE InsertTuple(SortTuplesUpTo(s, n - 1), s[n])

SortTuples(s) == SortTuplesUpTo(s, Len(s))

\* xml_processor.py 123
GuiMerge ==
    /\ pipeline = "gui"
    /\ pc = "loaded"
    /\ clip_index = Len(GuiAudioClips(doc_audio[1]))
    /\ segments' = _merge_intervals(SortTuples(collected), 1)
    /\ pc' = "analysed"
    /\ UNCHANGED <<doc_video, doc_audio, video_tracks, audio_tracks, mappings, total_duration,
                   seq_elem, warnings, exit_code, written>>
    /\ UNCHANGED <<runVars, listVars, detectVars, sectionVars, cacheVars>>

\* xml_processor.py 123-136 of a GUI run
GuiReconstruct == pipeline = "gui" /\ (GuiApplyCuts \/ GuiUpdateDuration \/ GuiWrite)

NextRun ==
    \/ CliInputMissing
    \/ CliNoSequence
    \/ CliLoad
    \/ CliNoAudioTracks
    \/ CliSkipClip
    \/ CliClipRaises
    \/ CliAnalyseClip
    \/ CliMerge
    \/ CliReconstruct
    \/ GuiInputMissing
    \/ GuiNoSequence
    \/ GuiNoAudioTrack
    \/ GuiNoAudioClips
    \/ GuiLoad
    \/ GuiSkipClip
    \/ GuiAnalyseClip
    \/ GuiMerge
    \/ GuiReconstruct

SpecRun == InitRun /\ [][NextRun]_vars

-----------------------------------------------------------------------------
(* audio_analysis.py: detect_non_silent_sections, one call.  The file holds   *)
(* its audio at settings.sample_rate; to_soundarray yields                   *)
(* int(duration * sample_rate) samples of the subclip, the k-th taken at     *)
(* k / sample_rate after its start.                                          *)

MaxMediaSamples == 4
MaxLead == 2

\* the times a call is given: from before the start of the media to after its end
RequestTimes == (0 - MaxLead)..(MaxMediaSamples + 1)

InitSections ==
    /\ IdleTimeline
    /\ IdleLists
    /\ IdleRun
    /\ IdleCache
    /\ sections_pc = "called"
    /\ media_opens \in BOOLEAN
    /\ media_samples \in IF media_opens THEN SeqsUpTo(Amplitudes, MaxMediaSamples) ELSE {<<>>}
    /\ start_seconds \in RequestTimes
    /\ end_seconds \in RequestTimes
    /\ actual_start = NoValue
    /\ actual_end = NoValue
    /\ adjusted = NoValue
    /\ detect_pc = "idle"
    /\ mono_audio = <<>>
    /\ sample_rate \in SampleRates
    /\ settings \in {s \in SettingsChoices : s.min_clip = 0}
    /\ window_samples = NoValue
    /\ audio_duration = NoValue
    /\ rms_values = <<>>
    /\ index = NoValue
    /\ current_start = NoValue
    /\ last_loud_time = NoValue
    /\ accumulated_silence = 0
    /\ non_silent_segments = <<>>
    /\ detected = NoValue

\* lines 127-128
SectionsEmptyRequest ==
    /\ sections_pc = "called"
    /\ end_seconds <= start_seconds
    /\ adjusted' = <<>>
    /\ sections_pc' = "returned"
    /\ UNCHANGED <<media_opens, media_samples, start_seconds, end_seconds, actual_start, actual_end>>
    /\ UNCHANGED <<timelineVars, listVars, detectVars, runVars, cacheVars>>

\* lines 130-134: AudioFileClip raises OSError, which is logged and raised again
SectionsOpenFails ==
    /\ sections_pc = "called"
    /\ end_seconds > start_seconds
    /\ ~media_opens
    /\ sections_pc' = "raised"
    /\ UNCHANGED <<media_opens, media_samples, start_seconds, end_seconds, actual_start, actual_end,
                   adjusted>>
    /\ UNCHANGED <<timelineVars, listVars, detectVars, runVars, cacheVars>>

\* line 137, clip.duration being known
MediaDuration == Seconds(Len(media_samples)) \div sample_rate

\* line 138
ActualStart == Max(0, Min(start_seconds, MediaDuration))

\* line 139
ActualEnd == Max(ActualStart, Min(end_seconds, MediaDuration))

\* lines 136-141: nothing of the request lies inside the media
SectionsOutsideMedia ==
    /\ sections_pc = "called"
    /\ end_seconds > start_seconds
    /\ media_opens
    /\ ActualEnd <= ActualStart
    /\ actual_start' = ActualStart
    /\ actual_end' = ActualEnd
    /\ adjusted' = <<>>
    /\ sections_pc' = "returned"
    /\ UNCHANGED <<media_opens, media_samples, start_seconds, end_seconds>>
    /\ UNCHANGED <<timelineVars, listVars, detectVars, runVars, cacheVars>>

\* lines 143-147: subclip(actual_start, actual_end).to_soundarray(fps=settings.sample_rate)
SoundArray ==
    LET first == (ActualStart * sample_rate) \div Seconds(1)
        size == ((ActualEnd - ActualStart) * sample_rate) \div Seconds(1)
    IN [k \in 1..size |-> media_samples[first + k]]

\* lines 136-152: the clamped part is decoded and handed to _detect_segments
SectionsDecode ==
    /\ sections_pc = "called"
    /\ end_seconds > start_seconds
    /\ media_opens
    /\ ActualEnd > ActualStart
    /\ actual_start' = ActualStart
    /\ actual_end' = ActualEnd
    /\ mono_audio' = SoundArray
    /\ detect_pc' = "called"
    /\ sections_pc' = "detecting"
    /\ UNCHANGED <<media_opens, media_samples, start_seconds, end_seconds, adjusted>>
    /\ UNCHANGED <<sample_rate, settings, window_samples, audio_duration, rms_values, index,
                   current_start, last_loud_time, accumulated_silence, non_silent_segments,
                   detected>>
    /\ UNCHANGED <<timelineVars, listVars, runVars, cacheVars>>

\* lines 154-155
SectionsNothingDetected ==
    /\ sections_pc = "detecting"
    /\ detect_pc = "returned"
    /\ detected = <<>>
    /\ adjusted' = <<>>
    /\ sections_pc' = "returned"
    /\ UNCHANGED <<media_opens, media_samples, start_seconds, end_seconds, actual_start, actual_end>>
    /\ UNCHANGED <<timelineVars, listVars, detectVars, runVars, cacheVars>>

RECURSIVE AdjustedLoop(_, _, _)
\* lines 159-163
AdjustedLoop(found, offset, k) ==
    IF k > Len(found) THEN <<>>
    ELSE LET adj_start == Max(0, found[k].start - offset)
             adj_end == Max(0, found[k].end - offset)
         IN (IF adj_end > adj_start
             THEN <<TimelineSegment(adj_start, adj_end)>>
             ELSE <<>>) \o AdjustedLoop(found, offset, k + 1)

\* lines 157-165
SectionsAdjust ==
    /\ sections_pc = "detecting"
    /\ detect_pc = "returned"
    /\ detected # <<>>
    /\ LET offset == actual_start - start_seconds
       IN adjusted' = AdjustedLoop(detected, offset, 1)
    /\ sections_pc' = "returned"
    /\ UNCHANGED <<media_opens, media_samples, start_seconds, end_seconds, actual_start, actual_end>>
    /\ UNCHANGED <<timelineVars, listVars, detectVars, runVars, cacheVars>>

NextSections ==
    \/ SectionsEmptyRequest
    \/ SectionsOpenFails
    \/ SectionsOutsideMedia
    \/ SectionsDecode
    \/ DetectEmpty
    \/ DetectWindows
    \/ DetectStep
    \/ DetectClose
    \/ DetectPostProcess
    \/ SectionsNothingDetected
    \/ SectionsAdjust

SpecSections == InitSections /\ [][NextSections]_vars

-----------------------------------------------------------------------------
(* xml_processor.py: the clip loop of process_xml as far as the decoded      *)
(* audio goes (lines 87-99) with _load_audio_segment (lines 245-266).  What  *)
(* the disk holds may change while the run goes on: whether a file exists    *)
(* and whether it decodes is open again at every call.                       *)

MaxLoopClips == 4

\* file_path values of the clips; the first two name the same file
FilePaths == {"a.wav", "./a.wav", "b.wav"}

\* os.path.abspath, the working directory being /w
abspath(file_path) ==
    IF file_path \in {"a.wav", "./a.wav"} THEN "/w/a.wav" ELSE "/w/b.wav"

ResolvedPaths == {abspath(f) : f \in FilePaths}

\* the AudioSegment the n-th call of from_file on a path returns
AudioSegment(path, n) == [path |-> path, take |-> n]

\* the return value None
NoAudio == [path |-> "", take |-> 0]

InitCache ==
    /\ IdleTimeline
    /\ IdleLists
    /\ IdleDetect
    /\ IdleRun
    /\ IdleSections
    /\ clip_paths \in SeqsUpTo(FilePaths, MaxLoopClips)
    /\ loop_index = 0
    /\ audio_cache = <<>>
    /\ from_file_calls = [r \in ResolvedPaths |-> 0]
    /\ insertions = [r \in ResolvedPaths |-> 0]
    /\ loaded = <<>>

\* a test of the cache on the path as given
InCacheAsGiven(file_path) == file_path \in DOMAIN audio_cache

\* lines 250-251: resolved_path in cache
InCache(file_path) == abspath(file_path) \in DOMAIN audio_cache

\* the clip the loop of line 91 is at
LoopClipPath == clip_paths[loop_index + 1]

\* lines 250-251: the cached audio is returned
LoadCached ==
    /\ loop_index < Len(clip_paths)
    /\ InCache(LoopClipPath)
    /\ loaded' = Append(loaded, audio_cache[abspath(LoopClipPath)])
    /\ loop_index' = loop_index + 1
    /\ UNCHANGED <<clip_paths, audio_cache, from_file_calls, insertions>>
    /\ UNCHANGED <<timelineVars, listVars, detectVars, runVars, sectionVars>>

\* lines 253-255 and 97-99: no file at the resolved path, the clip is skipped
LoadFileMissing ==
    /\ loop_index < Len(clip_paths)
    /\ ~InCache(LoopClipPath)
    /\ loaded' = Append(loaded, NoAudio)
    /\ loop_index' = loop_index + 1
    /\ UNCHANGED <<clip_paths, audio_cache, from_file_calls, insertions>>
    /\ UNCHANGED <<timelineVars, listVars, detectVars, runVars, sectionVars>>

\* lines 257-262 and 97-99: from_file raises, the clip is skipped
LoadDecodeFails ==
    /\ loop_index < Len(clip_paths)
    /\ ~InCache(LoopClipPath)
    /\ from_file_calls' = [from_file_calls EXCEPT ![abspath(LoopClipPath)] = @ + 1]
    /\ loaded' = Append(loaded, NoAudio)
    /\ loop_index' = loop_index + 1
    /\ UNCHANGED <<clip_paths, audio_cache, insertions>>
    /\ UNCHANGED <<timelineVars, listVars, detectVars, runVars, sectionVars>>

\* lines 257-266: the file is decoded and the audio is put into the cache
LoadDecoded ==
    /\ loop_index < Len(clip_paths)
    /\ ~InCache(LoopClipPath)
    /\ LET resolved_path == abspath(LoopClipPath)
           audio == AudioSegment(resolved_path, from_file_calls[resolved_path] + 1)
       IN /\ from_file_calls' = [from_file_calls EXCEPT ![resolved_path] = @ + 1]
          /\ audio_cache' = [r \in DOMAIN audio_cache \cup {resolved_path} |->
                                IF r = resolved_path THEN audio ELSE audio_cache[r]]
          /\ insertions' = [insertions EXCEPT ![resolved_path] = @ + 1]
          /\ loaded' = Append(loaded, audio)
    /\ loop_index' = loop_index + 1
    /\ UNCHANGED clip_paths
    /\ UNCHANGED <<timelineVars, listVars, detectVars, runVars, sectionVars>>

NextCache ==
    \/ LoadCached
    \/ LoadFileMissing
    \/ LoadDecodeFails
    \/ LoadDecoded

SpecCache == InitCache /\ [][NextCache]_vars

-----------------------------------------------------------------------------
(* Vocabulary of the properties of the reconstruction *)

CliRebuilt == pc \in {"rebuilt", "finalised", "done"}
GuiRebuilt == pc \in {"gui_cut", "gui_finalised", "gui_done"}

\* TrackData and document tracks, video first: track t of one is track t of the other
AllTrackData == video_tracks \o audio_tracks
AllDocTracks == doc_video \o doc_audio

\* the tracks the GUI pipeline rebuilds: every video track and the first audio track
GuiRebuiltTracks == 1..(Len(doc_video) + (IF doc_audio = <<>> THEN 0 ELSE 1))

\* positions, in a rebuilt track, of the fragments cloned from the clip item `origin`
FragmentsOf(track, origin) ==
    {k \in 1..Len(track) : track[k].id.tag # "" /\ track[k].origin = origin}

FramesOf(x) == x.start .. (x.end - 1)

SegmentsOverlapping(clip) ==
    {k \in 1..Len(segments) :
        Min(clip.end, segments[k].end) > Max(clip.start, segments[k].start)}

\* the clips of one track are pairwise non-overlapping and cover every preserved frame
CoversPreserved(clipitems) ==
    /\ \A i, j \in 1..Len(clipitems) :
          i # j => FramesOf(clipitems[i]) \cap FramesOf(clipitems[j]) = {}
    /\ \A k \in 1..Len(segments) : \A f \in FramesOf(segments[k]) :
          \E i \in 1..Len(clipitems) : f \in FramesOf(clipitems[i])

IsScenarioB ==
    /\ segments = <<TimelineSegment(0, 5), TimelineSegment(10, 15)>>
    /\ Len(video_tracks) = 1
    /\ Len(video_tracks[1]) = 1
    /\ video_tracks[1][1].start = 3
    /\ video_tracks[1][1].end = 12

-----------------------------------------------------------------------------
(* C1  Scenario B *)

ScenarioBMappings ==
    mappings = <<SegmentMapping(0, 5, 0, 5), SegmentMapping(10, 15, 5, 10)>>

\* C1 as stated: with preserved segments [0,5) and [10,15) the mappings are (0,5)->(0,5)
\* and (10,15)->(5,10), and the clip on [3,12) becomes exactly two fragments, timeline
\* [3,5) with source in-point in + 3 and timeline [5,8) with source in-point in + 2.
C1_ScenarioB_AsStated ==
    (IsScenarioB /\ CliRebuilt) =>
        LET clip == video_tracks[1][1]
            out == doc_video[1]
        IN /\ ScenarioBMappings
           /\ Len(out) = 2
           /\ out[1].start = 3 /\ out[1].end = 5 /\ out[1].in_frame = clip.in_frame + 3
           /\ out[2].start = 5 /\ out[2].end = 8 /\ out[2].in_frame = clip.in_frame + 2

\* C1 amended: the same mappings and exactly two fragments, the first on timeline [3,5)
\* with source in-point in + 0 (the clip's own first frames 3 and 4), the second on
\* timeline [5,7) with source in-point in + 7 (the clip's frames 10 and 11, which are
\* all of [10,15) that the clip covers).
C1_ScenarioB ==
    (IsScenarioB /\ CliRebuilt) =>
        LET clip == video_tracks[1][1]
            out == doc_video[1]
        IN /\ ScenarioBMappings
           /\ Len(out) = 2
           /\ out[1].start = 3 /\ out[1].end = 5
           /\ out[1].in_frame = clip.in_frame /\ out[1].out_frame = clip.in_frame + 2
           /\ out[2].start = 5 /\ out[2].end = 7
           /\ out[2].in_frame = clip.in_frame + 7 /\ out[2].out_frame = clip.in_frame + 9

C1_Witness == IsScenarioB /\ pc = "rebuilt" /\ Len(doc_video[1]) = 2

-----------------------------------------------------------------------------
(* C2  Frame-exact reconstruction *)

MappingsHolding(f) ==
    {m \in 1..Len(mappings) : mappings[m].source_start <= f /\ f < mappings[m].source_end}

OutputFrame(m, f) == mappings[m].output_start + (f - mappings[m].source_start)

\* C2: after _build_track, for every track, every original clip c and every frame f of c:
\* for each mapping m holding f exactly one fragment cloned from c covers the output frame
\* m.output_start + (f - m.source_start) and plays source frame c.in + (f - c.start)
\* there; if no mapping holds f, no fragment of c plays that source frame; and two clips
\* on different tracks that covered f both cover that output frame.
C2_FrameExact ==
    CliRebuilt =>
        \A t \in 1..Len(AllTrackData) : \A c \in 1..Len(AllTrackData[t]) :
            LET clip == AllTrackData[t][c]
                out == AllDocTracks[t]
                frags == FragmentsOf(out, clip.element.origin)
            IN \A f \in FramesOf(clip) :
                  /\ \A m \in MappingsHolding(f) :
                        LET o == OutputFrame(m, f)
                            covering == {k \in frags : o \in FramesOf(out[k])}
                        IN /\ Cardinality(covering) = 1
                           /\ \A k \in covering :
                                 out[k].in_frame + (o - out[k].start)
                                     = clip.in_frame + (f - clip.start)
                           /\ \A t2 \in 1..Len(AllTrackData) :
                                 (\E c2 \in 1..Len(AllTrackData[t2]) :
                                      f \in FramesOf(AllTrackData[t2][c2]))
                                 => \E k2 \in 1..Len(AllDocTracks[t2]) :
                                      o \in FramesOf(AllDocTracks[t2][k2])
                  /\ MappingsHolding(f) = {} =>
                        \A k \in frags :
                            ~(out[k].in_frame <= clip.in_frame + (f - clip.start)
                              /\ clip.in_frame + (f - clip.start) < out[k].out_frame)

\* a clip cut in two by a gap, beside a clip of another track over the same frames
C2_Witness ==
    /\ pc = "rebuilt"
    /\ Len(mappings) = 2
    /\ \E c \in 1..Len(video_tracks[1]) :
          /\ Cardinality(FragmentsOf(doc_video[1], video_tracks[1][c].element.origin)) = 2
          /\ \E f \in FramesOf(video_tracks[1][c]) : MappingsHolding(f) = {}
          /\ \E a \in 1..Len(audio_tracks[1]) :
                /\ FramesOf(audio_tracks[1][a]) \cap FramesOf(video_tracks[1][c]) # {}
                /\ audio_tracks[1][a].in_frame # video_tracks[1][c].in_frame

-----------------------------------------------------------------------------
(* C4  The rebuilt timeline is gap-free *)

RECURSIVE SumDurations(_, _)
SumDurations(segs, n) == IF n = 0 THEN 0 ELSE SumDurations(segs, n - 1) + Duration(segs[n])

PreservedLength == SumDurations(segments, Len(segments))

PreservedFrames == UNION {FramesOf(segments[k]) : k \in 1..Len(segments)}

Covering(track, f) == {k \in 1..Len(track) : f \in FramesOf(track[k])}

\* every output frame of [0, total) lies in exactly one fragment and no fragment leaves it
GapFree(track, total) ==
    /\ \A o \in 0..(total - 1) : Cardinality(Covering(track, o)) = 1
    /\ \A k \in 1..Len(track) : track[k].start >= 0 /\ track[k].end <= total

\* the fragments lie exactly on the preserved frames, one fragment on each
OnPreservedFrames(track) ==
    /\ \A f \in PreservedFrames : Cardinality(Covering(track, f)) = 1
    /\ \A k \in 1..Len(track) : FramesOf(track[k]) \subseteq PreservedFrames

\* what _build_track does: the command-line half of C4
C4_CliGapFree ==
    CliRebuilt =>
        \A t \in 1..Len(AllTrackData) :
            CoversPreserved(AllTrackData[t]) => GapFree(AllDocTracks[t], PreservedLength)

\* what _rebuild_track does under the same hypothesis: every fragment stays where its
\* frames lay on the original timeline, so the fragments lie exactly on the preserved
\* frames and the gaps between the preserved segments stay in the track
C4_GuiInPlace ==
    GuiRebuilt =>
        \A t \in GuiRebuiltTracks :
            CoversPreserved(AllTrackData[t]) => OnPreservedFrames(AllDocTracks[t])

\* C4: when the clips of a track are pairwise non-overlapping and cover every preserved
\* frame, the rebuilt track covers every output frame of [0, total_duration) exactly once
\* and nothing outside it, total_duration being the summed length of the preserved
\* segments, for the tracks _build_track rebuilds and for those _rebuild_track rebuilds.
C4_GapFree ==
    /\ C4_CliGapFree
    /\ GuiRebuilt =>
          \A t \in GuiRebuiltTracks :
              CoversPreserved(AllTrackData[t]) => GapFree(AllDocTracks[t], PreservedLength)

\* two clips that together cover two separate preserved segments, cut by _rebuild_track
C4_Witness ==
    /\ pc = "gui_cut"
    /\ Len(segments) = 2
    /\ segments[1].end < segments[2].start
    /\ Len(video_tracks[1]) = 2
    /\ CoversPreserved(video_tracks[1])
    /\ Len(doc_video[1]) >= 2

-----------------------------------------------------------------------------
(* C6  Round trip of an uncut clip *)

InsideOneSegment(clip) ==
    /\ clip.start < clip.end
    /\ \E k \in 1..Len(segments) :
          segments[k].start <= clip.start /\ clip.end <= segments[k].end

\* C6: a clip whose (non-empty) timeline range lies inside one preserved segment is
\* emitted by _build_track as exactly one fragment, as long on the timeline and in the
\* source as the clip is on the timeline.
C6_UncutRoundTrip ==
    CliRebuilt =>
        \A t \in 1..Len(AllTrackData) : \A c \in 1..Len(AllTrackData[t]) :
            LET clip == AllTrackData[t][c]
                out == AllDocTracks[t]
                frags == FragmentsOf(out, clip.element.origin)
            IN InsideOneSegment(clip) =>
                  /\ Cardinality(frags) = 1
                  /\ \A k \in frags :
                        /\ out[k].end - out[k].start = clip.end - clip.start
                        /\ out[k].out_frame - out[k].in_frame = clip.end - clip.start

\* an uncut clip strictly inside the second of two segments, moved by the rebuild
C6_Witness ==
    /\ pc = "rebuilt"
    /\ Len(segments) = 2
    /\ \E c \in 1..Len(video_tracks[1]) :
          LET clip == video_tracks[1][c]
          IN /\ segments[2].start < clip.start
             /\ clip.start < clip.end
             /\ clip.end <= segments[2].end
             /\ \E k \in FragmentsOf(doc_video[1], clip.element.origin) :
                   doc_video[1][k].start # clip.start

-----------------------------------------------------------------------------
(* C7  A clip spanning a segment boundary *)

SpansBoundary(clip) ==
    \E k \in 1..Len(segments) :
        \/ clip.start < segments[k].start /\ segments[k].start < clip.end
        \/ clip.start < segments[k].end /\ segments[k].end < clip.end

FragmentFrames(track, origin) ==
    UNION {FramesOf(track[k]) : k \in FragmentsOf(track, origin)}

\* the frames of the clip inside mapping m, moved to where the mapping puts them
MovedOverlap(clip, m) ==
    {mappings[m].output_start + (f - mappings[m].source_start) :
        f \in FramesOf(clip) \cap (mappings[m].source_start .. (mappings[m].source_end - 1))}

\* C7 as stated: a clip spanning a segment boundary yields as many fragments as preserved
\* segments it overlaps, and the union of the fragments' timeline ranges equals the union
\* of (clip range /\ preserved ranges).
C7_SplitAtBoundaries_AsStated ==
    CliRebuilt =>
        \A t \in 1..Len(AllTrackData) : \A c \in 1..Len(AllTrackData[t]) :
            LET clip == AllTrackData[t][c]
                out == AllDocTracks[t]
            IN SpansBoundary(clip) =>
                  /\ Cardinality(FragmentsOf(out, clip.element.origin))
                         = Cardinality(SegmentsOverlapping(clip))
                  /\ FragmentFrames(out, clip.element.origin)
                         = FramesOf(clip) \cap PreservedFrames

\* C7 amended: a clip spanning a segment boundary yields as many fragments as preserved
\* segments it overlaps, and the union of the fragments' timeline ranges equals the union,
\* over the mappings, of (clip range /\ the mapping's source range) moved by
\* output_start - source_start, that is, the intersections as placed on the output
\* timeline rather than where they lay on the original one.
C7_SplitAtBoundaries ==
    CliRebuilt =>
        \A t \in 1..Len(AllTrackData) : \A c \in 1..Len(AllTrackData[t]) :
            LET clip == AllTrackData[t][c]
                out == AllDocTracks[t]
            IN SpansBoundary(clip) =>
                  /\ Cardinality(FragmentsOf(out, clip.element.origin))
                         = Cardinality(SegmentsOverlapping(clip))
                  /\ FragmentFrames(out, clip.element.origin)
                         = UNION {MovedOverlap(clip, m) : m \in 1..Len(mappings)}

\* a clip over the gap between two segments, beside another clip of its track
C7_Witness ==
    /\ pc = "rebuilt"
    /\ Len(video_tracks[1]) = 2
    /\ \E c \in 1..2 :
          /\ SpansBoundary(video_tracks[1][c])
          /\ Cardinality(SegmentsOverlapping(video_tracks[1][c])) = 2
          /\ Cardinality(FragmentsOf(doc_video[1], video_tracks[1][c].element.origin)) = 2

-----------------------------------------------------------------------------
(* C8  Emitted clips carry no link references *)

EmittedClips == {e \in UNION {Range(AllDocTracks[t]) : t \in 1..Len(AllDocTracks)} : e.id.tag # ""}

KindOf(base) == CHOOSE k \in ClipKinds : k.base = base

\* C8: every clip emitted into a rebuilt track, by _clone_clipitem or by _rebuild_track,
\* has zero link references, and the original clip items keep the link references the
\* document gave them.
C8_NoLinks ==
    /\ \A e \in EmittedClips : e.links = 0
    /\ \A t \in 1..Len(AllTrackData) : \A c \in 1..Len(AllTrackData[t]) :
          AllTrackData[t][c].element.links = KindOf(AllTrackData[t][c].id).links

\* a fragment cloned from a clip item that has two link references
C8_Witness ==
    /\ pc \in {"rebuilt", "gui_cut"}
    /\ \E e \in EmittedClips : KindOf(e.id.base).links = 2 /\ e.links = 0

-----------------------------------------------------------------------------
(* C10  Scenario C: no preserved segment *)

\* C10: with an empty preserved-segment list every video and audio track comes out of
\* rebuild_sequence_tracks with an empty clip list and the total duration 0,
\* update_sequence_metadata writes duration 0, and the run goes on to write its output and
\* return 0, having logged one warning.
C10_ScenarioC ==
    (segments = <<>> /\ pc \in {"analysed", "rebuilt", "finalised", "done"}) =>
        /\ CliRebuilt =>
              /\ \A t \in 1..Len(AllDocTracks) : AllDocTracks[t] = <<>>
              /\ total_duration = 0
              /\ warnings = 1
        /\ pc \in {"finalised", "done"} =>
              seq_elem.duration = 0 /\ seq_elem.out = 0 /\ seq_elem.in = 0
        /\ pc = "done" => exit_code = 0 /\ written
        /\ pc # "done" => exit_code = NoValue /\ ENABLED (CliRebuild \/ CliUpdateMetadata \/ CliWrite)

\* the run has ended on a document that held clips and has none left
C10_Witness ==
    /\ segments = <<>>
    /\ pc = "done"
    /\ exit_code = 0
    /\ video_tracks[1] # <<>>
    /\ audio_tracks[1] # <<>>
    /\ doc_video[1] = <<>>

-----------------------------------------------------------------------------
(* C3  The mappings are contiguous and gap-free *)

KeptSegments(segs) == SelectSeq(segs, LAMBDA g : Duration(g) > 0)

\* C3: for every segment list, the mappings _segment_mappings returns start at output
\* frame 0, each starts where the one before it ends, each is as long on the output side
\* as on the source side and longer than 0 (a segment of duration <= 0 gives no mapping),
\* and they are the segments of positive duration in the order of the input.
C3_MappingsContiguous ==
    (list_fn = "_segment_mappings" /\ list_out # <<>>) =>
        LET m == list_out[1]
            kept == KeptSegments(list_arg)
        IN /\ m # <<>> => m[1].output_start = 0
           /\ \A i \in 1..(Len(m) - 1) : m[i + 1].output_start = m[i].output_end
           /\ \A i \in 1..Len(m) :
                 /\ m[i].output_end - m[i].output_start = m[i].source_end - m[i].source_start
                 /\ m[i].source_end - m[i].source_start > 0
           /\ Len(m) = Len(kept)
           /\ \A i \in 1..Len(m) :
                 m[i].source_start = kept[i].start /\ m[i].source_end = kept[i].end

\* three segments out of order, the middle one inverted, mapped to two mappings
C3_Witness ==
    /\ list_fn = "_segment_mappings"
    /\ Len(list_arg) = 3
    /\ list_arg[1].start > list_arg[3].start
    /\ Duration(list_arg[2]) < 0
    /\ list_out # <<>>
    /\ Len(list_out[1]) = 2

-----------------------------------------------------------------------------
(* C5  Merging is idempotent *)

\* C5: merging a merged list returns it element for element; for _merge_segments, for
\* the merge that ends _detect_segments, and for _merge_intervals given a sorted list.
C5_MergeIdempotent ==
    (list_fn \in {"_merge_segments", "_detect_segments", "_merge_intervals"}
       /\ Len(list_out) = 2) =>
        list_out[2] = list_out[1]

\* a list of three intervals that the first merge shortened and the second returned as is
C5_Witness ==
    /\ list_fn = "_merge_segments"
    /\ Len(list_arg) = 3
    /\ Len(list_out) = 2
    /\ Len(list_out[1]) = 2
    /\ list_out[1] # SubSeq(list_arg, 1, 2)
    /\ list_out[2] = list_out[1]

-----------------------------------------------------------------------------
(* C9  Scenario A *)

\* samples whose 1 s windows have the RMS values 0,0,0,1,1,1,0,0,0; threshold 0.5,
\* min_silence 2 s, min_clip 0, padding 0
IsScenarioA ==
    /\ mono_audio = <<0, 0, 0, 1, 1, 1, 0, 0, 0>>
    /\ sample_rate = 1
    /\ settings = [frame_window |-> Seconds(1),
                   silence_threshold |-> [num |-> 1, den |-> 2],
                   min_silence |-> Seconds(2),
                   min_clip |-> 0,
                   padding |-> 0]

ScenarioARun == <<[start |-> Seconds(3), end |-> Seconds(6)]>>

\* C9: in Scenario A the windows have the RMS values 0,0,0,1,1,1,0,0,0, the state machine
\* emits the one raw interval [3 s, 6 s) and nothing else, and _detect_segments returns
\* exactly that interval.
C9_ScenarioA ==
    IsScenarioA =>
        /\ detect_pc # "called" =>
              rms_values = [w \in 1..9 |-> [num |-> mono_audio[w], den |-> 1]]
        /\ detect_pc = "scanning" =>
              non_silent_segments = IF index <= 7 THEN <<>> ELSE ScenarioARun
        /\ detect_pc \in {"scanned", "returned"} => non_silent_segments = ScenarioARun
        /\ detect_pc = "returned" => detected = ScenarioARun

\* Scenario A has run to its return
C9_Witness ==
    /\ IsScenarioA
    /\ detect_pc = "returned"
    /\ Len(detected) = 1

-----------------------------------------------------------------------------
(* C11  Every track is rebuilt *)

\* e is the clone _build_track makes of one clip of clipitems for one mapping
DerivedByBuildTrack(e, clipitems) ==
    /\ e.id.tag = "_cut"
    /\ \E c \in 1..Len(clipitems), m \in 1..Len(mappings) :
          LET clip == clipitems[c]
              p == Placement(clip, mappings[m])
          IN /\ Overlaps(clip, mappings[m])
             /\ e.origin = clip.element.origin
             /\ e.start = p.new_start /\ e.end = p.new_end
             /\ e.in_frame = p.new_in /\ e.out_frame = p.new_out

\* e is the clone _rebuild_track makes of one clip of clipitems for one interval
DerivedByRebuildTrack(e, clipitems) ==
    /\ e.id.tag = "_seg"
    /\ \E c \in 1..Len(clipitems), k \in 1..Len(segments) :
          LET clip == clipitems[c]
              overlap_start == Max(clip.start, segments[k].start)
              overlap_end == Min(clip.end, segments[k].end)
          IN /\ overlap_end > overlap_start
             /\ e.origin = clip.element.origin
             /\ e.start = overlap_start /\ e.end = overlap_end
             /\ e.in_frame = clip.in_frame + (overlap_start - clip.start)
             /\ e.out_frame = e.in_frame + (overlap_end - overlap_start)

\* what rebuild_sequence_tracks does: the command-line half of C11
C11_CliAllTracks ==
    CliRebuilt =>
        \A t \in 1..Len(AllDocTracks) : \A k \in 1..Len(AllDocTracks[t]) :
            DerivedByBuildTrack(AllDocTracks[t][k], AllTrackData[t])

\* what _apply_cuts_to_tracks does: the video tracks and the first audio track hold
\* fragments only, and every other audio track holds the clip items it held
C11_GuiFirstAudioOnly ==
    GuiRebuilt =>
        \A t \in 1..Len(AllDocTracks) :
            IF t \in GuiRebuiltTracks
            THEN \A k \in 1..Len(AllDocTracks[t]) :
                    DerivedByRebuildTrack(AllDocTracks[t][k], AllTrackData[t])
            ELSE Range(AllDocTracks[t]) = {AllTrackData[t][c].element : c \in 1..Len(AllTrackData[t])}

\* C11: after the reconstruction every clip of every video track and of every audio track
\* is a fragment derived through the segment list, and no track keeps an original clip
\* item; for rebuild_sequence_tracks and for _apply_cuts_to_tracks.
C11_AllTracksRebuilt ==
    /\ C11_CliAllTracks
    /\ GuiRebuilt =>
          \A t \in 1..Len(AllDocTracks) : \A k \in 1..Len(AllDocTracks[t]) :
              DerivedByRebuildTrack(AllDocTracks[t][k], AllTrackData[t])

\* the GUI pipeline has cut a sequence whose second audio track holds a clip
C11_Witness ==
    /\ pc = "gui_cut"
    /\ segments # <<>>
    /\ Len(audio_tracks) = 2
    /\ audio_tracks[2] # <<>>
    /\ doc_audio[1] # <<>>

-----------------------------------------------------------------------------
(* C15  Sequence finalisation *)

\* C15: the total rebuild_sequence_tracks returns is the last mapping's output_end and the
\* summed length of the preserved segments of positive length (0 for none), and
\* update_sequence_metadata sets in to 0, out and duration to that total, and the
\* duration of the timecode record to it when the sequence has one.
C15_Finalisation ==
    /\ CliRebuilt =>
          /\ total_duration = (IF mappings = <<>> THEN 0 ELSE mappings[Len(mappings)].output_end)
          /\ total_duration = SumDurations(KeptSegments(segments), Len(KeptSegments(segments)))
    /\ pc \in {"finalised", "done"} =>
          /\ seq_elem.in = 0
          /\ seq_elem.out = total_duration
          /\ seq_elem.duration = total_duration
          /\ "timecode" \in DOMAIN seq_elem => seq_elem.timecode.duration = total_duration

\* a sequence with a timecode record finalised after two segments were preserved
C15_Witness ==
    /\ pc = "finalised"
    /\ Len(segments) = 2
    /\ "timecode" \in DOMAIN seq_elem
    /\ total_duration > 0
    /\ seq_elem.timecode.duration = total_duration

-----------------------------------------------------------------------------
(* C17  Generated identifiers *)

\* positions <<track, index>> of the clips a command-line reconstruction emitted
EmittedPositions ==
    {<<t, k>> \in (1..Len(AllDocTracks)) \X (1..(MaxClips * (MaxSegs + 1))) :
        k <= Len(AllDocTracks[t]) /\ AllDocTracks[t][k].id.tag = "_cut"}

IdAt(pos) == AllDocTracks[pos[1]][pos[2]].id

\* within one track the identifiers are {original_id}_cut{n}, n counting the emissions
\* for that original id from 1, and no two are equal
C17_UniquePerTrack ==
    CliRebuilt =>
        \A t \in 1..Len(AllDocTracks) :
            LET here == {pos \in EmittedPositions : pos[1] = t}
            IN /\ \A p, q \in here : p # q => IdAt(p) # IdAt(q)
               /\ \A p \in here :
                     IdAt(p).n \in 1..Cardinality({q \in here : IdAt(q).base = IdAt(p).base})

\* C17: every clip emitted during one call of rebuild_sequence_tracks carries the
\* identifier {original_id}_cut{n}, n counting the emissions for that original id from 1,
\* and no two emitted clips, on one track or on different tracks, carry the same
\* identifier, also when clips share an original id.
C17_UniqueIds ==
    CliRebuilt =>
        /\ \A p, q \in EmittedPositions : p # q => IdAt(p) # IdAt(q)
        /\ \A p \in EmittedPositions :
              IdAt(p).n \in 1..Cardinality({q \in EmittedPositions : IdAt(q).base = IdAt(p).base})

\* two tracks each hold a clip with the same original id and each yields a fragment
C17_Witness ==
    /\ pc = "rebuilt"
    /\ \E p, q \in EmittedPositions :
          p[1] # q[1] /\ IdAt(p).base = IdAt(q).base

-----------------------------------------------------------------------------
(* Vocabulary of the properties of the silence state machine *)

\* windows are numbered from 1: window w is the one the loop meets with index = w - 1
WindowStart(w) == (w - 1) * settings.frame_window
WindowEnd(w) == Min(WindowStart(w) + settings.frame_window, audio_duration)

LoudWindows == {w \in 1..Len(rms_values) : IsLoud(rms_values[w], settings.silence_threshold)}

RECURSIVE SilenceDuration(_, _)
\* the summed duration of windows a..b
SilenceDuration(a, b) ==
    IF a > b THEN 0 ELSE (WindowEnd(a) - WindowStart(a)) + SilenceDuration(a + 1, b)

\* a..b is a maximal run of consecutive silent windows
MaximalSilentRun(a, b) ==
    /\ a <= b
    /\ \A w \in a..b : w \notin LoudWindows
    /\ a - 1 \in LoudWindows
    /\ b + 1 \in LoudWindows

\* every maximal silent run between the loud windows i and j is shorter than min_silence
OnlyShortSilences(i, j) ==
    \A a \in (i + 1)..(j - 1) : \A b \in a..(j - 1) :
        MaximalSilentRun(a, b) => SilenceDuration(a, b) < settings.min_silence

WindowInside(w, run) == run.start <= WindowStart(w) /\ WindowEnd(w) <= run.end

SameRawInterval(i, j) ==
    \E k \in 1..Len(non_silent_segments) :
        WindowInside(i, non_silent_segments[k]) /\ WindowInside(j, non_silent_segments[k])

-----------------------------------------------------------------------------
(* C18  Hysteresis *)

\* C18: for every RMS sequence, two loud windows lie in the same raw interval
\* exactly when every maximal silent run between them is shorter than min_silence, every
\* raw interval runs from the start of its first loud window to the end of its last loud
\* window, and the raw intervals are in time order and do not overlap.
C18_Hysteresis ==
    detect_pc \in {"scanned", "returned"} /\ rms_values # <<>> =>
        /\ \A i, j \in LoudWindows :
              i <= j => (SameRawInterval(i, j) <=> OnlyShortSilences(i, j))
        /\ \A k \in 1..Len(non_silent_segments) :
              \E i, j \in LoudWindows :
                  /\ i <= j
                  /\ non_silent_segments[k].start = WindowStart(i)
                  /\ non_silent_segments[k].end = WindowEnd(j)
                  /\ \A w \in LoudWindows :
                        WindowInside(w, non_silent_segments[k]) <=> (i <= w /\ w <= j)
        /\ \A k \in 1..(Len(non_silent_segments) - 1) :
              non_silent_segments[k].end <= non_silent_segments[k + 1].start

\* the window of window_samples samples lasts exactly frame_window: int() on line 43
\* dropped nothing
WindowsExact == window_samples * Seconds(1) = sample_rate * settings.frame_window

\* what the state machine does when the windows are exact: the statement of C18
C18_HysteresisExactWindows ==
    WindowsExact => C18_Hysteresis

\* a loud window to which the loop attributes an empty time range has been scanned
C18_Witness ==
    /\ detect_pc = "scanned"
    /\ \E w \in LoudWindows : WindowEnd(w) <= WindowStart(w)

-----------------------------------------------------------------------------
(* C19  State invariant of the silence state machine *)

\* C19: after any prefix of the windows current_start is set exactly when last_loud_time
\* is set, and accumulated_silence is 0 whenever no run is open; so a run that is closed
\* is closed at last_loud_time, never at the fallback of line 76 or line 84.
C19_RunState ==
    detect_pc \in {"scanning", "scanned", "returned"} /\ rms_values # <<>> =>
        /\ (current_start = NoValue) <=> (last_loud_time = NoValue)
        /\ current_start = NoValue => accumulated_silence = 0
        /\ current_start # NoValue =>
              \A fallback \in {WindowStart(index + 1), audio_duration} :
                  EndTime(last_loud_time, fallback) = last_loud_time

\* a run was closed by a long silence, a new one is open and a silent window has passed
C19_Witness ==
    /\ detect_pc = "scanning"
    /\ non_silent_segments # <<>>
    /\ current_start # NoValue
    /\ accumulated_silence > 0

-----------------------------------------------------------------------------
(* Vocabulary of the properties of a whole run *)

\* the analysis loop has ended and its result was returned
AnalysisReturned == pc \notin {"start", "loaded", "failed"}

\* the clips the analysis loop goes through
ClipsToAnalyse ==
    IF pipeline = "cli" THEN audio_tracks[1] ELSE SelectSeq(audio_tracks[1], GuiHasMedia)

ReadableClips == {i \in DOMAIN media : media[i] = "readable"}

UnreadableClips == {i \in DOMAIN media : media[i] = "unreadable"}

-----------------------------------------------------------------------------
(* C12 *)

\* an unreadable media file does not end the run, and once the analysis has returned every
\* readable clip of the track was analysed and no other clip added a segment
UnreadableMediaSkipped ==
    /\ failure # "analysis_error"
    /\ AnalysisReturned =>
          /\ analysed = ReadableClips
          /\ (ReadableClips = {} => segments = <<>>)

\* the clip loop of process_xml passes an unreadable file and goes on
C12_GuiLoopContinues == pipeline = "gui" => UnreadableMediaSkipped

\* a command-line run whose analysed track holds an unreadable file never returns from the
\* analysis
C12_CliRunAborted ==
    pipeline = "cli" /\ UnreadableClips # {} => ~AnalysisReturned

\* C12: Scenario D: when the media file of one clip of the analysed audio track cannot be
\* opened or decoded, the clip contributes no segment, the analysis goes on with the later
\* clips and the run is not aborted, in compute_preserved_segments as in process_xml
C12_ScenarioD == UnreadableMediaSkipped

\* a command-line run ended by the unreadable file of a later clip, the segments found in
\* the clips before it being lost
C12_Witness ==
    /\ pipeline = "cli"
    /\ failure = "analysis_error"
    /\ collected # <<>>
    /\ analysed # {}
    /\ ~written

-----------------------------------------------------------------------------
(* C13 *)

\* every stage before the write has completed, on the data the stage before it left
OutputComplete ==
    /\ failure = "none"
    /\ fps # NoValue
    /\ audio_tracks # <<>>
    /\ clip_index = Len(ClipsToAnalyse)
    /\ IF pipeline = "cli"
       THEN /\ segments = _merge_segments(collected)
            /\ mappings = _segment_mappings(segments)
            /\ doc_video = RebuiltTracks(video_tracks, mappings)
            /\ doc_audio = RebuiltTracks(audio_tracks, mappings)
            /\ seq_elem = update_sequence_metadata(RunSeqElem, TotalDuration(mappings))
       ELSE /\ segments = _merge_intervals(SortTuples(collected), 1)
            /\ \A t \in GuiRebuiltTracks : \A k \in 1..Len(AllDocTracks[t]) :
                  AllDocTracks[t][k].id.tag = "_seg"
            /\ seq_elem = _update_sequence_duration(RunSeqElem, segments)

FatalErrors == {"input_missing", "no_sequence", "no_audio_track", "no_audio_clips",
                "analysis_error"}

\* C13: no partial output on a fatal error: the write of the output file happens only after
\* loading, analysis, reconstruction and metadata update have completed, no step of the run
\* follows it, and a run that ended with a fatal error has written nothing
C13_NoPartialOutput ==
    /\ [](/\ (written => OutputComplete)
          /\ (pc = "failed" <=> failure \in FatalErrors)
          /\ (failure # "none" => ~written))
    /\ [][~written]_vars

\* a run that wrote its output after analysing two clips, one of them giving segments
C13_Witness ==
    /\ written
    /\ Cardinality(analysed) = 2
    /\ segments # <<>>

-----------------------------------------------------------------------------
(* C14 *)

LacksSequence == ~input.has_sequence

LacksAudioTrack == input.has_sequence /\ doc_audio = <<>>

LacksRate == input.has_sequence /\ ~input.has_rate

\* the run ends with a failure before any clip is analysed
FatalBeforeAnalysis ==
    /\ analysed = {}
    /\ clip_index = 0
    /\ ~AnalysisReturned

\* a document without <sequence> or without audio track ends the run before the analysis
C14_SequenceAndTrackFatal == LacksSequence \/ LacksAudioTrack => FatalBeforeAnalysis

\* a sequence without <rate> is read at 25 frames per second by the command line and at 30
\* by the GUI
C14_RateDefaulted ==
    LacksRate /\ fps # NoValue => fps = IF pipeline = "cli" THEN 25 ELSE 30

\* C14: structural errors are fatal before any analysis: a document that lacks the sequence
\* element, any audio track or the rate element of the sequence ends the run with a failure
\* and no clip's audio is analysed
C14_StructuralErrors == LacksSequence \/ LacksAudioTrack \/ LacksRate => FatalBeforeAnalysis

\* a command-line run on a sequence without <rate> that analysed a clip and wrote its output
C14_Witness ==
    /\ pipeline = "cli"
    /\ LacksRate
    /\ analysed # {}
    /\ written
    /\ exit_code = 0

-----------------------------------------------------------------------------
(* C16 *)

\* C16: the list compute_preserved_segments returns, whatever was detected in the clips of
\* the first audio track, holds segments with end > start only, is sorted by start, and each
\* segment starts more than one frame after the end of the segment before it
C16_PreservedSegments ==
    pipeline = "cli" /\ AnalysisReturned =>
        /\ segments = _merge_segments(collected)
        /\ \A k \in 1..Len(segments) : segments[k].end > segments[k].start
        /\ \A k \in 1..(Len(segments) - 1) :
              /\ segments[k].start <= segments[k + 1].start
              /\ segments[k + 1].start > segments[k].end + 1
        /\ \A j \in 1..Len(segments), k \in 1..Len(segments) :
              j # k => FramesOf(segments[j]) \cap FramesOf(segments[k]) = {}

\* two segments returned for three collected, detected out of order in two clips
C16_Witness ==
    /\ pipeline = "cli"
    /\ pc = "analysed"
    /\ Len(collected) = 3
    /\ Len(segments) = 2
    /\ ~IsSortedList(collected)
    /\ Cardinality(analysed) = 2

-----------------------------------------------------------------------------
(* C20 *)

\* detect_non_silent_sections returned what _detect_segments found in the clamped audio
SectionsDetected == sections_pc = "returned" /\ detect_pc = "returned" /\ detected # <<>>

\* the intervals of a list, each moved later by offset
ShiftedBy(found, offset) ==
    [k \in 1..Len(found) |->
        TimelineSegment(found[k].start + offset, found[k].end + offset)]

\* a request that starts inside the media is not moved by the clamp, and the intervals come
\* back as they were detected
C20_UnclampedStart ==
    SectionsDetected /\ start_seconds >= 0 =>
        /\ actual_start = start_seconds
        /\ adjusted = detected

\* C20: offset correction in detect_non_silent_sections: when the requested window is clamped
\* to the media, an interval detected at time t of the clamped audio is returned at
\* t + (actual_start - start_seconds), so that start_seconds plus the returned time is the
\* media time of the sound, in particular when a negative start_seconds is clamped up to 0
C20_OffsetCorrection ==
    SectionsDetected => adjusted = ShiftedBy(detected, actual_start - start_seconds)

\* a request that starts before the media, with a sound detected in the clamped audio
C20_Witness ==
    /\ SectionsDetected
    /\ start_seconds < 0
    /\ actual_start = 0
    /\ adjusted # ShiftedBy(detected, actual_start - start_seconds)

-----------------------------------------------------------------------------
(* C21 *)

\* the samples window w was measured on: [first, last), counted from 0
WindowFirstSample(w) == (w - 1) * window_samples
WindowLastSample(w) == Min(w * window_samples, Len(mono_audio))

\* the window of the loop of lines 62-65 and the window of the loop of lines 47-53 are the
\* same stretch of audio: the times of the one are the times of the samples of the other
TimesMatchSamples(w) ==
    /\ WindowStart(w) * sample_rate = Seconds(WindowFirstSample(w))
    /\ WindowEnd(w) * sample_rate = Seconds(WindowLastSample(w))

WindowTiming ==
    /\ window_samples * Seconds(1) = settings.frame_window * sample_rate
    /\ \A w \in 1..Len(rms_values) :
          /\ rms_values[w] = WindowMeanSquare(mono_audio, window_samples, w - 1)
          /\ TimesMatchSamples(w)
          /\ WindowStart(w) < audio_duration
          /\ WindowEnd(w) > WindowStart(w)

\* when int() on line 43 drops nothing, every window is timed as its samples are
C21_ExactWindowsTimed ==
    detect_pc \in {"scanning", "scanned", "returned"} /\ rms_values # <<>> /\ WindowsExact =>
        WindowTiming

\* C21: window timing is consistent with window contents: for every sample rate, window
\* duration and buffer length the k-th RMS value is computed from the samples
\* [k*W, min((k+1)*W, N)) with W = window duration * sample rate, the time range the state
\* machine attributes to the window is the time range of those samples, every window starts
\* before the end of the audio and has a positive attributed duration
C21_WindowTiming ==
    detect_pc \in {"scanning", "scanned", "returned"} /\ rms_values # <<>> => WindowTiming

\* a window of samples to which the state machine attributes a start at or after the end of
\* the audio
C21_Witness ==
    /\ detect_pc = "scanning"
    /\ \E w \in 1..Len(rms_values) :
          /\ WindowLastSample(w) > WindowFirstSample(w)
          /\ WindowStart(w) >= audio_duration

-----------------------------------------------------------------------------
(* C22 *)

\* one step of the loop: an entry of the cache stays as it is, its file is not decoded
\* again, and a clip that resolves to it is given the cached audio
CacheEntriesKept ==
    \A r \in DOMAIN audio_cache :
        /\ r \in DOMAIN audio_cache'
        /\ audio_cache'[r] = audio_cache[r]
        /\ from_file_calls'[r] = from_file_calls[r]
        /\ insertions'[r] = insertions[r]
        /\ (loop_index' = loop_index + 1 /\ abspath(LoopClipPath) = r =>
               loaded'[Len(loaded')] = audio_cache[r])

\* C22: decoded-audio cache: during one run of process_xml, for any sequence of clips, each
\* distinct resolved path is inserted into the cache at most once, an inserted entry is
\* never removed or replaced, and every later clip with the same resolved path is given the
\* cached audio without the file being decoded again
C22_AudioCache ==
    /\ [](\A r \in ResolvedPaths :
             /\ insertions[r] <= 1
             /\ (r \in DOMAIN audio_cache <=> insertions[r] = 1))
    /\ [][CacheEntriesKept]_vars

\* a file decoded at the second try, for a clip given under one spelling of the path, and
\* handed from the cache to two later clips given under the other spelling
C22_Witness ==
    /\ loop_index = 4
    /\ clip_paths[2] # clip_paths[3]
    /\ abspath(clip_paths[2]) = abspath(clip_paths[3])
    /\ loaded[1] = NoAudio
    /\ loaded[2] = AudioSegment(abspath(clip_paths[1]), 2)
    /\ loaded[3] = loaded[2]
    /\ loaded[4] = loaded[2]

-----------------------------------------------------------------------------
(* C23 *)

\* the clip item of track t a fragment was cloned from
OriginalOf(t, e) ==
    CHOOSE clip \in Range(AllTrackData[t]) : clip.element.origin = e.origin

\* every fragment _build_track emitted satisfies bound(fragment, original clip)
EveryCutFragment(bound(_, _)) ==
    \A t \in 1..Len(AllDocTracks) : \A k \in 1..Len(AllDocTracks[t]) :
        bound(AllDocTracks[t][k], OriginalOf(t, AllDocTracks[t][k]))

InsideSourceRange(e, clip) ==
    /\ clip.in_frame <= e.in_frame
    /\ e.in_frame < e.out_frame
    /\ e.out_frame <= clip.out_frame

InsideTimelineExtent(e, clip) ==
    /\ clip.in_frame <= e.in_frame
    /\ e.in_frame < e.out_frame
    /\ e.out_frame <= clip.in_frame + (clip.end - clip.start)

InsideSourceRangeIfCovered(e, clip) ==
    clip.out_frame - clip.in_frame >= clip.end - clip.start => InsideSourceRange(e, clip)

\* the source range of a fragment lies inside the stretch of source that starts at the
\* clip's in-point and is as long as the clip is on the timeline
C23_InsideTimelineExtent == CliRebuilt => EveryCutFragment(InsideTimelineExtent)

\* a clip whose source range is at least as long as its timeline range keeps its fragments
\* inside its source range
C23_CoveredClipsInside == CliRebuilt => EveryCutFragment(InsideSourceRangeIfCovered)

\* C23: source ranges stay inside the source range of the original clip: for every fragment
\* _build_track emits from a clip c, c.in <= new_in < new_out <= c.out, whatever in, out,
\* start and end the document gave the clip
C23_SourceRanges == CliRebuilt => EveryCutFragment(InsideSourceRange)

\* a fragment whose out-point lies after the out-point of the clip it was cloned from
C23_Witness ==
    /\ CliRebuilt
    /\ \E t \in 1..Len(AllDocTracks) : \E k \in 1..Len(AllDocTracks[t]) :
          AllDocTracks[t][k].out_frame > OriginalOf(t, AllDocTracks[t][k]).out_frame

=============================================================================
